---- MODULE Spec2Model ----
(***************************************************************************)
(* A model of the e-commerce analytics pipeline: the data preparation      *)
(* steps of EcommerceDataLoader (data_loader.py) and the aggregations of   *)
(* EcommerceMetrics (business_metrics.py).                                 *)
(*                                                                         *)
(* A DataFrame is a record [columns, rows]: the set of column names and    *)
(* the sequence of rows.  A row is a record with one field per column and  *)
(* the extra field "index", the row's label in the pandas index.           *)
(* Prices are exact amounts.  A number is a record [kind, n, d]: kind      *)
(* "num" is the float64 n/d (d > 0, lowest terms, computed exactly), kind  *)
(* "nan", "inf" and "-inf" are the IEEE specials, and kind "int" is a      *)
(* Python int (what nunique() and len() return).                           *)
(* A Timestamp is a record [isna, value]: value counts hours since         *)
(* 1970-01-01 00:00, NaT has isna = TRUE.                                  *)
(***************************************************************************)
EXTENDS Integers, Sequences, FiniteSets, TLC

VARIABLES
    pc,               \* the call that produced the current state
    raised,           \* the exception that call raised to its caller, "" when it returned
    datasets,         \* EcommerceDataLoader.datasets
    sales_data,       \* result of create_sales_dataset / argument of the preparation steps
    sales_delivered,  \* result of filter_delivered_orders / add_delivery_metrics
    df,               \* filter_by_date_range: argument df
    bounds,           \* filter_by_date_range: start_year, end_year, start_month, end_month
    df_filtered,      \* filter_by_date_range: result
    df_refiltered,    \* filter_by_date_range applied to its own result
    current_data,     \* calculate_revenue_metrics: argument current_data
    comparison_data,  \* calculate_revenue_metrics: argument comparison_data
    periods,          \* calculate_revenue_metrics: current_period, comparison_period
    metrics,          \* calculate_revenue_metrics: result
    data,             \* calculate_monthly_trends: argument data
    year,             \* calculate_monthly_trends: argument year
    trends,           \* calculate_monthly_trends: result
    products_data,    \* analyze_product_performance: argument products_data
    top_n,            \* analyze_product_performance: argument top_n
    product_analysis, \* analyze_product_performance: result
    files,            \* the CSV files in data_path: dataset name -> content, for the files there
    changes,          \* how often the files in data_path were changed
    orders_data,      \* calculate_operational_metrics: argument orders_data
    target_year,      \* calculate_operational_metrics: argument target_year
    operational_metrics,  \* calculate_operational_metrics: result
    reviews_data,     \* analyze_customer_satisfaction: argument reviews_data
    satisfaction_analysis, \* analyze_customer_satisfaction: result
    heap,             \* the tables two callers work on: 0 is the table both were handed, c the private table of caller c
    callers,          \* per caller: the operation called, how far it got, the table its local name refers to, its result
    customers_data,   \* analyze_geographic_performance: the customers table
    geo_performance,  \* the table analyze_geographic_performance returned
    years,            \* load_and_prepare_data: the arguments target_year and comparison_year
    printed           \* the record counts load_and_prepare_data printed

vars == <<pc, raised, datasets, sales_data, sales_delivered, df, bounds, df_filtered,
          df_refiltered, current_data, comparison_data, periods, metrics,
          data, year, trends,
          products_data, top_n, product_analysis,
          files, changes,
          orders_data, target_year, operational_metrics,
          reviews_data, satisfaction_analysis,
          heap, callers,
          customers_data, geo_performance,
          years, printed>>

\* the variables of one family of operations
loaderVars == <<datasets, sales_data, sales_delivered>>

filterVars == <<df, bounds, df_filtered, df_refiltered>>

revenueVars == <<current_data, comparison_data, periods, metrics>>

trendVars == <<data, year, trends>>

productVars == <<products_data, top_n, product_analysis>>

fileVars == <<files, changes>>

operationalVars == <<orders_data, target_year, operational_metrics>>

satisfactionVars == <<reviews_data, satisfaction_analysis>>

callerVars == <<heap, callers>>

geographicVars == <<customers_data, geo_performance>>

pipelineVars == <<years, printed>>

----------------------------------------------------------------------------
(* Bounds of the model *)

\* longest table handed to add_delivery_metrics
MaxRows == 2

\* most rows of order_items_dataset.csv
MaxItems == 2

\* most rows of orders_dataset.csv
MaxOrders == 2

\* longest table handed to filter_by_date_range
MaxFilterRows == 2

\* longest current-period table handed to calculate_revenue_metrics
MaxCurrentRows == 2

\* longest comparison-period table handed to calculate_revenue_metrics
MaxComparisonRows == 1

\* longest sales table handed to analyze_product_performance
MaxSalesRows == 2

\* most changes to the files in data_path
MaxFileChanges == 2

\* most rows of order_reviews_dataset.csv
MaxReviews == 2

\* longest table handed to a calculator in the aggregates specification
MaxAggregateRows == 1

\* longest table two callers share
MaxSharedRows == 1

\* longest table handed to calculate_monthly_trends
MaxTrendRows == 2

----------------------------------------------------------------------------
(* Values: None, float64, Timestamp *)

\* Python's None for an optional integer argument: [none |-> TRUE]
None == [none |-> TRUE, v |-> 0]

Some(v) == [none |-> FALSE, v |-> v]

NaN == [kind |-> "nan", n |-> 0, d |-> 1]

PosInf == [kind |-> "inf", n |-> 0, d |-> 1]

NegInf == [kind |-> "-inf", n |-> 0, d |-> 1]

Abs(x) == IF x < 0 THEN -x ELSE x

Min(a, b) == IF a <= b THEN a ELSE b

RECURSIVE Gcd(_, _)
Gcd(a, b) == IF b = 0 THEN a ELSE Gcd(b, a % b)

\* the float n/d, d # 0, in lowest terms with a positive denominator
Frac(n, d) ==
    LET g == Gcd(Abs(n), Abs(d))
        s == IF d < 0 THEN -1 ELSE 1
    IN  [kind |-> "num", n |-> (s * n) \div g, d |-> (s * d) \div g]

Num(n) == [kind |-> "num", n |-> n, d |-> 1]

IsNaN(x) == x.kind = "nan"

\* x <= y on float64: any comparison with NaN is False
FLe(x, y) ==
    CASE IsNaN(x) \/ IsNaN(y) -> FALSE
      [] x.kind = "-inf" \/ y.kind = "inf" -> TRUE
      [] x.kind = "inf" \/ y.kind = "-inf" -> FALSE
      [] OTHER -> x.n * y.d <= y.n * x.d

PyInt(n) == [kind |-> "int", n |-> n, d |-> 1]

IsInf(x) == x.kind \in {"inf", "-inf"}

\* -1, 0 or 1
Sign(x) ==
    CASE x.kind = "inf" -> 1
      [] x.kind = "-inf" -> -1
      [] OTHER -> IF x.n > 0 THEN 1 ELSE IF x.n < 0 THEN -1 ELSE 0

SignedInf(sgn) == IF sgn < 0 THEN NegInf ELSE PosInf

FNeg(x) ==
    CASE x.kind = "inf" -> NegInf
      [] x.kind = "-inf" -> PosInf
      [] x.kind = "nan" -> NaN
      [] OTHER -> [kind |-> "num", n |-> -x.n, d |-> x.d]

\* float64 addition
FAdd(x, y) ==
    CASE IsNaN(x) \/ IsNaN(y) -> NaN
      [] IsInf(x) /\ IsInf(y) -> IF x.kind = y.kind THEN x ELSE NaN
      [] IsInf(x) -> x
      [] IsInf(y) -> y
      [] OTHER -> Frac(x.n * y.d + y.n * x.d, x.d * y.d)

FSub(x, y) == FAdd(x, FNeg(y))

\* float64 multiplication
FMul(x, y) ==
    CASE IsNaN(x) \/ IsNaN(y) -> NaN
      [] IsInf(x) \/ IsInf(y) ->
            IF Sign(x) * Sign(y) = 0 THEN NaN ELSE SignedInf(Sign(x) * Sign(y))
      [] OTHER -> Frac(x.n * y.n, x.d * y.d)

\* float64 division as numpy does it: a zero divisor gives inf or nan and a
\* warning, never an exception
FDiv(x, y) ==
    CASE IsNaN(x) \/ IsNaN(y) -> NaN
      [] IsInf(x) /\ IsInf(y) -> NaN
      [] IsInf(x) -> SignedInf(Sign(x) * (IF Sign(y) < 0 THEN -1 ELSE 1))
      [] IsInf(y) -> Num(0)
      [] y.n = 0 -> IF x.n = 0 THEN NaN ELSE SignedInf(Sign(x))
      [] OTHER -> Frac(x.n * y.d, x.d * y.n)

\* the sum of a float column
RECURSIVE FSum(_)
FSum(xs) == IF xs = <<>> THEN Num(0) ELSE FAdd(Head(xs), FSum(Tail(xs)))

\* Series.mean() of a float column: undefined cells are skipped, NaN when no
\* cell is left
FMean(xs) ==
    LET defined == SelectSeq(xs, LAMBDA x : ~IsNaN(x))
    IN  IF defined = <<>> THEN NaN ELSE FDiv(FSum(defined), Num(Len(defined)))

NaT == [isna |-> TRUE, value |-> 0]

\* a cell of a text column that can be null: Str(s), or NaN when it is null
Str(s) == [kind |-> "str", s |-> s]

\* the strings that are sorted somewhere, in the order Python compares them
StrOrder == <<"1-3 days", "4-7 days", "8+ days", "P1", "P2", "P3", "RJ", "SP",
              "Unknown", "books", "toys">>

\* the strings of S in ascending order
SortedStrings(S) == SelectSeq(StrOrder, LAMBDA x : x \in S)

----------------------------------------------------------------------------
(* The calendar behind pd.to_datetime and the .dt accessors *)

IsLeap(y) == (y % 4 = 0 /\ y % 100 # 0) \/ y % 400 = 0

\* days from 1970-01-01 to January 1st of year y
DaysBeforeYear(y) ==
    365 * (y - 1970) + ((y - 1969) \div 4) - ((y - 1901) \div 100) + ((y - 1601) \div 400)

\* days from January 1st to the first of month m (m = 13: the whole year)
DaysBeforeMonth(y, m) ==
    <<0, 31, 59, 90, 120, 151, 181, 212, 243, 273, 304, 334, 365>>[m]
      + (IF m > 2 /\ IsLeap(y) THEN 1 ELSE 0)

\* pd.to_datetime of one cell: a raw cell is [isna, year, month, day, hour],
\* a cell that is a Timestamp already stays as it is
ToTimestamp(raw) ==
    IF "value" \in DOMAIN raw THEN raw
    ELSE IF raw.isna THEN NaT
    ELSE [isna |-> FALSE,
          value |-> 24 * (DaysBeforeYear(raw.year) + DaysBeforeMonth(raw.year, raw.month)
                          + raw.day - 1) + raw.hour]

DtYear(ts) ==
    LET days == ts.value \div 24
        est  == 1970 + (days \div 366)
    IN  CHOOSE y \in {est, est + 1} :
            DaysBeforeYear(y) <= days /\ days < DaysBeforeYear(y + 1)

DtMonth(ts) ==
    LET y   == DtYear(ts)
        doy == (ts.value \div 24) - DaysBeforeYear(y)
    IN  CHOOSE m \in 1..12 :
            DaysBeforeMonth(y, m) <= doy /\ doy < DaysBeforeMonth(y, m + 1)

DtQuarter(ts) == ((DtMonth(ts) - 1) \div 3) + 1

DtDay(ts) ==
    LET y == DtYear(ts)
    IN  (ts.value \div 24) - DaysBeforeYear(y) - DaysBeforeMonth(y, DtMonth(ts)) + 1

\* (a - b).dt.days: the whole days of a Timedelta (floor), NaN when either is NaT
TimedeltaDays(a, b) ==
    IF a.isna \/ b.isna THEN NaN ELSE Num((a.value - b.value) \div 24)

----------------------------------------------------------------------------
(* DataFrames *)

NoTable == [columns |-> {}, rows |-> <<>>]

\* the empty dict of tables
NoDatasets == [n \in {} |-> NoTable]

DateColumns == {"order_purchase_timestamp", "order_delivered_customer_date"}

HasColumn(t, c) == c \in t.columns

\* df[col] = f(row) for every row: the column is added or overwritten
WithColumn(row, c, v) ==
    [k \in (DOMAIN row) \cup {c} |-> IF k = c THEN v ELSE row[k]]

\* df[[...]]: the columns cs (and the index) of one row
Project(row, cs) == [k \in cs \cup {"index"} |-> row[k]]

\* all sequences over S of length at most n
SeqsUpTo(S, n) == UNION {[1..k -> S] : k \in 0..n}

\* a table whose rows are labelled 0, 1, 2, ... (a fresh RangeIndex)
RangeIndexed(cs, rs) ==
    [columns |-> cs,
     rows |-> [i \in 1..Len(rs) |-> WithColumn(rs[i], "index", i - 1)]]

----------------------------------------------------------------------------
(* EcommerceDataLoader.load_all_datasets *)

\* the keys of dataset_files
DatasetNames == {"orders", "order_items", "products", "customers", "reviews", "payments"}

\* self.datasets after the loop, which is also the mapping returned: a file
\* that is there replaces the entry of its name, a missing file is skipped
\* and leaves the entry as it was
load_all_datasets(ds, fs) ==
    [n \in {m \in DatasetNames : m \in DOMAIN fs \/ m \in DOMAIN ds} |->
        IF n \in DOMAIN fs THEN fs[n] ELSE ds[n]]

----------------------------------------------------------------------------
(* EcommerceDataLoader.add_delivery_metrics *)

categorize_delivery_speed_strict(days) ==
    IF IsNaN(days) THEN "Unknown"
    ELSE IF ~FLe(Num(3), days) THEN "1-3 days"
    ELSE IF ~FLe(Num(7), days) THEN "4-7 days"
    ELSE "8+ days"

categorize_delivery_speed(days) ==
    IF IsNaN(days) THEN "Unknown"
    ELSE IF FLe(days, Num(3)) THEN "1-3 days"
    ELSE IF FLe(days, Num(7)) THEN "4-7 days"
    ELSE "8+ days"

add_delivery_metrics(t) ==
    IF HasColumn(t, "order_delivered_customer_date")
         /\ HasColumn(t, "order_purchase_timestamp")
    THEN [columns |-> t.columns \cup {"delivery_speed_days", "delivery_category"},
          rows |-> [i \in 1..Len(t.rows) |->
              LET r    == t.rows[i]
                  days == TimedeltaDays(r.order_delivered_customer_date,
                                        r.order_purchase_timestamp)
              IN  WithColumn(WithColumn(r, "delivery_speed_days", days),
                             "delivery_category", categorize_delivery_speed(days))]]
    ELSE t

----------------------------------------------------------------------------
(* EcommerceDataLoader.preprocess_dates, add_time_features, create_sales_dataset *)

RECURSIVE Flatten(_)
Flatten(ss) == IF ss = <<>> THEN <<>> ELSE Head(ss) \o Flatten(Tail(ss))

\* one row of a merge: the left row's cells, then the right row's
JoinRows(l, r) ==
    [k \in (DOMAIN l) \cup (DOMAIN r) |-> IF k \in DOMAIN l THEN l[k] ELSE r[k]]

\* a merge that pairs every left row with every right row
merge_cross(left, right, on) ==
    RangeIndexed((left.columns \cup right.columns),
        Flatten([i \in 1..Len(left.rows) |->
            [j \in 1..Len(right.rows) |-> JoinRows(left.rows[i], right.rows[j])]]))

\* a merge that keeps one row per key: a later left row replaces nothing and is lost
merge_first_per_key(left, right, on) ==
    RangeIndexed((left.columns \cup right.columns),
        Flatten([i \in 1..Len(left.rows) |->
            LET l == left.rows[i]
                m == SelectSeq(right.rows, LAMBDA r : r[on] = l[on])
            IN  IF \E h \in 1..(i - 1) : left.rows[h][on] = l[on] THEN <<>>
                ELSE [j \in 1..Len(m) |-> JoinRows(l, m[j])]]))

\* pd.merge(left, right, on=on, how='inner'): the rows in the order of the left
\* table, one per pair of a left and a right row with equal keys, relabelled
merge(left, right, on) ==
    RangeIndexed((left.columns \cup right.columns),
        Flatten([i \in 1..Len(left.rows) |->
            LET l == left.rows[i]
                m == SelectSeq(right.rows, LAMBDA r : r[on] = l[on])
            IN  [j \in 1..Len(m) |-> JoinRows(l, m[j])]]))

\* df[[cs]]
Select(t, cs) ==
    [columns |-> cs, rows |-> [i \in 1..Len(t.rows) |-> Project(t.rows[i], cs)]]

preprocess_dates(t, date_columns) ==
    [columns |-> t.columns,
     rows |-> [i \in 1..Len(t.rows) |->
        [k \in DOMAIN t.rows[i] |->
            IF k \in date_columns /\ k \in t.columns
            THEN ToTimestamp(t.rows[i][k]) ELSE t.rows[i][k]]]]

\* one .dt field of a datetime cell: NaN for NaT
DtField(ts, v) == IF ts.isna THEN NaN ELSE Num(v)

\* the columns add_time_features derives from date_column
TimeFeatures(date_column) ==
    {date_column \o "_year", date_column \o "_month",
     date_column \o "_quarter", date_column \o "_day"}

add_time_features(t, date_column) ==
    IF HasColumn(t, date_column)
    THEN [columns |-> t.columns \cup TimeFeatures(date_column),
          rows |-> [i \in 1..Len(t.rows) |->
            LET r  == t.rows[i]
                ts == r[date_column]
            IN  [k \in (DOMAIN r) \cup TimeFeatures(date_column) |->
                    CASE k = date_column \o "_year" -> DtField(ts, DtYear(ts))
                      [] k = date_column \o "_month" -> DtField(ts, DtMonth(ts))
                      [] k = date_column \o "_quarter" -> DtField(ts, DtQuarter(ts))
                      [] k = date_column \o "_day" -> DtField(ts, DtDay(ts))
                      [] OTHER -> r[k]]]]
    ELSE t

ItemColumns == {"order_id", "order_item_id", "product_id", "price", "freight_value"}

OrderColumns == {"order_id", "customer_id", "order_status",
                 "order_purchase_timestamp", "order_delivered_customer_date"}

\* the outcome of a call: the exception raised, or "" and the table returned
Raise(e) == [raised |-> e, table |-> NoTable]

Return(t) == [raised |-> "", table |-> t]

\* a create_sales_dataset that, like preprocess_dates, skips a column that is
\* not there
create_sales_dataset_partial(ds) ==
    IF "order_items" \notin DOMAIN ds \/ "orders" \notin DOMAIN ds
    THEN Raise("ValueError")
    ELSE IF "order_id" \notin ds["order_items"].columns \cap ds["orders"].columns
    THEN Raise("KeyError")
    ELSE Return(add_time_features(
            preprocess_dates(
                merge(Select(ds["order_items"], ItemColumns \cap ds["order_items"].columns),
                      Select(ds["orders"], OrderColumns \cap ds["orders"].columns),
                      "order_id"),
                DateColumns),
            "order_purchase_timestamp"))

create_sales_dataset(ds) ==
    IF "order_items" \notin DOMAIN ds \/ "orders" \notin DOMAIN ds
    THEN Raise("ValueError")
    ELSE IF ~(ItemColumns \subseteq ds["order_items"].columns)
              \/ ~(OrderColumns \subseteq ds["orders"].columns)
    THEN Raise("KeyError")
    ELSE Return(add_time_features(
            preprocess_dates(
                merge(Select(ds["order_items"], ItemColumns),
                      Select(ds["orders"], OrderColumns), "order_id"),
                DateColumns),
            "order_purchase_timestamp"))

----------------------------------------------------------------------------
(* EcommerceDataLoader.filter_delivered_orders *)

\* a filter that lets every order through
filter_any_status(t) == t

\* sales_data[sales_data['order_status'] == 'delivered'].copy()
filter_delivered_orders(t) ==
    [columns |-> t.columns,
     rows |-> SelectSeq(t.rows, LAMBDA r : r.order_status = "delivered")]

----------------------------------------------------------------------------
(* EcommerceDataLoader.filter_by_date_range *)

\* the truth value of an Optional[int] in "if start_year and ...":
\* None and 0 are false
Truthy(b) == ~b.none /\ b.v # 0

\* df[df[col] >= v] (ge) or df[df[col] <= v] (le): an undefined cell compares False
Where(t, col, ge, v) ==
    [columns |-> t.columns,
     rows |-> SelectSeq(t.rows,
        LAMBDA r : IF ge THEN FLe(Num(v), r[col]) ELSE FLe(r[col], Num(v)))]

\* a filter that loses the first row it keeps
filter_by_date_range_skip_first(t, date_column, start_year, end_year, start_month, end_month) ==
    LET year_col  == date_column \o "_year"
        month_col == date_column \o "_month"
        f1 == IF Truthy(start_year) /\ HasColumn(t, year_col)
              THEN Where(t, year_col, TRUE, start_year.v) ELSE t
        f2 == IF Truthy(end_year) /\ HasColumn(f1, year_col)
              THEN Where(f1, year_col, FALSE, end_year.v) ELSE f1
        f3 == IF Truthy(start_month) /\ HasColumn(f2, month_col)
              THEN Where(f2, month_col, TRUE, start_month.v) ELSE f2
        f4 == IF Truthy(end_month) /\ HasColumn(f3, month_col)
              THEN Where(f3, month_col, FALSE, end_month.v) ELSE f3
    IN  [columns |-> f4.columns,
         rows |-> IF f4.rows = <<>> THEN <<>> ELSE Tail(f4.rows)]

filter_by_date_range(t, date_column, start_year, end_year, start_month, end_month) ==
    LET year_col  == date_column \o "_year"
        month_col == date_column \o "_month"
        f1 == IF Truthy(start_year) /\ HasColumn(t, year_col)
              THEN Where(t, year_col, TRUE, start_year.v) ELSE t
        f2 == IF Truthy(end_year) /\ HasColumn(f1, year_col)
              THEN Where(f1, year_col, FALSE, end_year.v) ELSE f1
        f3 == IF Truthy(start_month) /\ HasColumn(f2, month_col)
              THEN Where(f2, month_col, TRUE, start_month.v) ELSE f2
        f4 == IF Truthy(end_month) /\ HasColumn(f3, month_col)
              THEN Where(f3, month_col, FALSE, end_month.v) ELSE f3
    IN  f4

\* a filter that drops the rows from the table it was handed
filter_in_place(t, date_column, start_year, end_year, start_month, end_month) ==
    filter_by_date_range(t, date_column, start_year, end_year, start_month, end_month)

\* the caller's table df after the call: df_filtered starts as df.copy(), and
\* df_filtered[...] builds a new table for every bound, so df keeps its value
df_after_filter(t, date_column, start_year, end_year, start_month, end_month) ==
    t

----------------------------------------------------------------------------
(* load_and_prepare_data *)

\* a return statement that hands back the rows of the target year
return_target_data(delivered, target_data) == target_data

\* return sales_delivered, datasets: the table returned is the prepared
\* table, not one filtered for a year
return_sales_delivered(delivered, target_data) == delivered

\* load_and_prepare_data on a new loader: the loader's datasets, the
\* exception raised or "", the tables sales_data and sales_delivered, and
\* the record counts printed on the way
load_and_prepare_data(fs, target_yr, comparison_yr) ==
    LET ds == load_all_datasets(NoDatasets, fs)
        r  == create_sales_dataset(ds)
        delivered == add_delivery_metrics(filter_delivered_orders(r.table))
        of_year(y) ==
            filter_by_date_range(delivered, "order_purchase_timestamp", y, y, None, None)
        \* the name target_data is bound only if target_year is given
        target_data == IF Truthy(target_yr) THEN of_year(target_yr) ELSE NoTable
    IN  [datasets |-> ds,
         raised |-> r.raised,
         sales_data |-> r.table,
         sales_delivered |->
            IF r.raised = "" THEN return_sales_delivered(delivered, target_data)
            ELSE NoTable,
         printed |->
            IF r.raised # "" THEN <<>>
            ELSE <<Len(r.table.rows), Len(delivered.rows)>>
                 \o (IF Truthy(target_yr) THEN <<Len(target_data.rows)>> ELSE <<>>)
                 \o (IF Truthy(comparison_yr) THEN <<Len(of_year(comparison_yr).rows)>>
                     ELSE <<>>)]

----------------------------------------------------------------------------
(* EcommerceMetrics.calculate_revenue_metrics *)

\* df[c] as a sequence of cells
Column(t, c) == [i \in 1..Len(t.rows) |-> t.rows[i][c]]

RECURSIVE SeqSum(_)
SeqSum(xs) == IF xs = <<>> THEN 0 ELSE Head(xs) + SeqSum(Tail(xs))

\* the integers of S in ascending order
RECURSIVE Sorted(_)
Sorted(S) ==
    IF S = {} THEN <<>>
    ELSE LET m == CHOOSE x \in S : \A y \in S : x <= y
         IN  <<m>> \o Sorted(S \ {m})

\* Series.sum() of a column of amounts: 0.0 for no rows
Sum(xs) == Num(SeqSum(xs))

\* a mean that is 0 for no rows
mean_or_zero(xs) == IF xs = <<>> THEN Num(0) ELSE Frac(SeqSum(xs), Len(xs))

\* Series.mean() of a column of amounts: NaN for no rows
Mean(xs) == IF xs = <<>> THEN NaN ELSE Frac(SeqSum(xs), Len(xs))

\* Series.nunique(), a Python int
NUnique(xs) == Cardinality({xs[i] : i \in 1..Len(xs)})

\* rows.groupby(key)[val].sum(): one sum per key, keys ascending
GroupSums(rows, key, val) ==
    LET keys == Sorted({rows[i][key] : i \in 1..Len(rows)})
    IN  [g \in 1..Len(keys) |->
            SeqSum(Column([rows |-> SelectSeq(rows, LAMBDA r : r[key] = keys[g])], val))]

\* the mean price of a line item
mean_item_price(t) == Mean(Column(t, "price"))

\* data.groupby('order_id')['price'].sum().mean()
avg_order_value(t) == Mean(GroupSums(t.rows, "order_id", "price"))

\* the number of line items
count_rows(t) == Len(t.rows)

\* data['order_id'].nunique()
total_orders(t) == NUnique(Column(t, "order_id"))

\* a growth rate that divides by the current value
growth_rate_over_current(cur, prev) == FMul(FDiv(FSub(cur, prev), cur), Num(100))

\* ((cur - prev) / prev) * 100 on float64
growth_rate(cur, prev) == FMul(FDiv(FSub(cur, prev), prev), Num(100))

\* dict.update
\* an update that leaves the keys the dict holds already as they are
update_new_keys(m, u) ==
    [k \in (DOMAIN m) \cup (DOMAIN u) |-> IF k \in DOMAIN m THEN m[k] ELSE u[k]]

Update(m, u) ==
    [k \in (DOMAIN m) \cup (DOMAIN u) |-> IF k \in DOMAIN u THEN u[k] ELSE m[k]]

\* the four metrics of one period under the keys "{period}_{metric}"
PeriodMetrics(period, revenue, aov, orders, items) ==
    [k \in {period \o "_total_revenue", period \o "_avg_order_value",
            period \o "_total_orders", period \o "_total_items"} |->
        CASE k = period \o "_total_revenue" -> revenue
          [] k = period \o "_avg_order_value" -> aov
          [] k = period \o "_total_orders" -> PyInt(orders)
          [] k = period \o "_total_items" -> PyInt(items)]

\* the outcome of a call that returns a dict
RaiseDict(e) == [raised |-> e, value |-> [k \in {} |-> NaN]]

ReturnDict(m) == [raised |-> "", value |-> m]

calculate_revenue_metrics(current, comparison, current_period, comparison_period) ==
    LET cur_revenue == Sum(Column(current, "price"))
        cur_aov     == avg_order_value(current)
        cur_orders  == total_orders(current)
        m == PeriodMetrics(current_period, cur_revenue, cur_aov, cur_orders,
                           Len(current.rows))
    IN  IF comparison = None THEN ReturnDict(m)
        ELSE LET comp_revenue == Sum(Column(comparison, "price"))
                 comp_aov     == avg_order_value(comparison)
                 comp_orders  == total_orders(comparison)
             IN  \* Python int / int: a zero divisor raises
                 IF comp_orders = 0 THEN RaiseDict("ZeroDivisionError")
                 ELSE ReturnDict(
                        Update(m,
                          Update(PeriodMetrics(comparison_period, comp_revenue, comp_aov,
                                               comp_orders, Len(comparison.rows)),
                                 [revenue_growth_rate |->
                                      growth_rate(cur_revenue, comp_revenue),
                                  aov_growth_rate |-> growth_rate(cur_aov, comp_aov),
                                  order_growth_rate |->
                                      growth_rate(Num(cur_orders), Num(comp_orders))])))

----------------------------------------------------------------------------
(* EcommerceMetrics.calculate_monthly_trends *)

\* a percentage change whose first value is 0
pct_change_zero_first(xs) ==
    [i \in 1..Len(xs) |->
        IF i = 1 THEN Num(0) ELSE FSub(FDiv(xs[i], xs[i - 1]), Num(1))]

\* Series.pct_change(): x / x.shift(1) - 1, undefined for the first value
pct_change(xs) ==
    [i \in 1..Len(xs) |->
        IF i = 1 THEN NaN ELSE FSub(FDiv(xs[i], xs[i - 1]), Num(1))]

\* the values as they are, fractions and not percentages
times_one(xs) == xs

\* x * 100 for every value of a float column
Times100(xs) == [i \in 1..Len(xs) |-> FMul(xs[i], Num(100))]

calculate_monthly_trends(t, yr) ==
    LET rows == IF Truthy(yr)
                THEN SelectSeq(t.rows,
                        LAMBDA r : r.order_purchase_timestamp_year = Num(yr.v))
                ELSE t.rows
        \* groupby drops the rows whose key is undefined and sorts the keys
        months == Sorted({rows[i].order_purchase_timestamp_month.n :
                            i \in {h \in 1..Len(rows) :
                                ~IsNaN(rows[h].order_purchase_timestamp_month)}})
        in_month(m) == SelectSeq(rows, LAMBDA r : r.order_purchase_timestamp_month = Num(m))
        revenue == [g \in 1..Len(months) |->
                        Sum(Column([rows |-> in_month(months[g])], "price"))]
        orders  == [g \in 1..Len(months) |->
                        NUnique(Column([rows |-> in_month(months[g])], "order_id"))]
        aov     == [g \in 1..Len(months) |->
                        Mean(GroupSums(in_month(months[g]), "order_id", "price"))]
        revenue_growth == Times100(pct_change(revenue))
        order_growth   == Times100(pct_change([g \in 1..Len(months) |-> Num(orders[g])]))
        aov_growth     == Times100(pct_change(aov))
    IN  RangeIndexed({"month", "revenue", "orders", "avg_order_value",
                      "revenue_growth", "order_growth", "aov_growth"},
            [g \in 1..Len(months) |->
                [month |-> Num(months[g]),
                 revenue |-> revenue[g],
                 orders |-> PyInt(orders[g]),
                 avg_order_value |-> aov[g],
                 revenue_growth |-> revenue_growth[g],
                 order_growth |-> order_growth[g],
                 aov_growth |-> aov_growth[g]]])

----------------------------------------------------------------------------
(* EcommerceMetrics.analyze_product_performance *)

\* pd.merge(left, right, on=on, how='left'): as the inner merge, but a left row
\* without a partner is kept once, with nulls in the columns of the right table
merge_left(left, right, on) ==
    RangeIndexed((left.columns \cup right.columns),
        Flatten([i \in 1..Len(left.rows) |->
            LET l == left.rows[i]
                m == SelectSeq(right.rows, LAMBDA r : r[on] = l[on])
            IN  IF m = <<>>
                THEN <<JoinRows(l, [k \in right.columns \ {on} |-> NaN])>>
                ELSE [j \in 1..Len(m) |-> JoinRows(l, m[j])]]))

\* round() on one cell, to the nearest 1/unit, a tie to the even one; an
\* integer cell stays as it is
RoundTo(x, unit) ==
    IF x.kind # "num" THEN x
    ELSE LET m == unit * x.n
             q == m \div x.d
             r == m - q * x.d
         IN  IF 2 * r > x.d \/ (2 * r = x.d /\ q % 2 = 1)
             THEN Frac(q + 1, unit) ELSE Frac(q, unit)

\* round(2)
Round2(x) == RoundTo(x, 100)

\* round(1)
Round1(x) == RoundTo(x, 10)

\* a groupby that keeps the rows with a null category as a group of their own
category_keys_keepna(rows) ==
    LET named == SortedStrings({rows[i].product_category_name.s :
                    i \in {h \in 1..Len(rows) : ~IsNaN(rows[h].product_category_name)}})
    IN  [g \in 1..Len(named) |-> Str(named[g])]
        \o (IF \E i \in 1..Len(rows) : IsNaN(rows[i].product_category_name)
            THEN <<NaN>> ELSE <<>>)

\* the group keys of groupby('product_category_name'): dropna=True leaves the
\* rows with a null category out of every group; the keys come sorted
category_keys(rows) ==
    LET named == SortedStrings({rows[i].product_category_name.s :
                    i \in {h \in 1..Len(rows) : ~IsNaN(rows[h].product_category_name)}})
    IN  [g \in 1..Len(named) |-> Str(named[g])]

\* groupby('product_category_name').agg(...).round(2) with the renamed columns
category_metrics(sales_products) ==
    LET keys == category_keys(sales_products.rows)
    IN  [g \in 1..Len(keys) |->
            LET grp == [rows |-> SelectSeq(sales_products.rows,
                            LAMBDA r : r.product_category_name = keys[g])]
            IN  [product_category_name |-> keys[g],
                 total_revenue |-> Round2(Sum(Column(grp, "price"))),
                 avg_price |-> Round2(Mean(Column(grp, "price"))),
                 items_sold |-> PyInt(Len(grp.rows)),
                 unique_orders |-> PyInt(NUnique(Column(grp, "order_id")))]]

\* groupby('product_id').agg(...).round(2) with the renamed columns
product_metrics(sales_products) ==
    LET keys == SortedStrings({sales_products.rows[i].product_id :
                                  i \in 1..Len(sales_products.rows)})
    IN  [g \in 1..Len(keys) |->
            LET grp == [rows |-> SelectSeq(sales_products.rows,
                            LAMBDA r : r.product_id = keys[g])]
            IN  [product_id |-> keys[g],
                 total_revenue |-> Round2(Sum(Column(grp, "price"))),
                 items_sold |-> PyInt(Len(grp.rows)),
                 unique_orders |-> PyInt(NUnique(Column(grp, "order_id")))]]

\* sort_values(col, ascending=False): every order of the rows in which col
\* never increases; the default sort is not stable, so rows with equal
\* values can come out in any order
sort_values(rows, col) ==
    {[i \in 1..Len(rows) |-> rows[p[i]]] :
        p \in {q \in Permutations(1..Len(rows)) :
                 \A i, j \in 1..Len(rows) :
                    i < j => FLe(rows[q[j]][col], rows[q[i]][col])}}

\* a head that returns the whole table
head_all(rows, n) == rows

\* DataFrame.head(n): the first n rows, or all but the last -n for n < 0
head(rows, n) ==
    SubSeq(rows, 1, IF n >= 0 THEN Min(n, Len(rows))
                    ELSE IF Len(rows) + n > 0 THEN Len(rows) + n ELSE 0)

\* the dicts analyze_product_performance can return
analyze_product_performance(sales, products, n) ==
    LET sales_products ==
            merge_left(Select(sales, {"product_id", "price", "order_id"}),
                       Select(products, {"product_id", "product_category_name"}),
                       "product_id")
    IN  {[category_performance |->
              RangeIndexed({"product_category_name", "total_revenue", "avg_price",
                            "items_sold", "unique_orders"}, head(c, n)),
          product_performance |->
              RangeIndexed({"product_id", "total_revenue", "items_sold",
                            "unique_orders"}, head(p, n))] :
            c \in sort_values(category_metrics(sales_products), "total_revenue"),
            p \in sort_values(product_metrics(sales_products), "total_revenue")}

----------------------------------------------------------------------------
(* EcommerceMetrics.analyze_geographic_performance *)

\* the number of rows of a group, whoever the customers are
unique_customers_per_row(grp) == PyInt(Len(grp.rows))

\* customer_id: 'nunique' of one group: the distinct customers, nulls apart
unique_customers(grp) ==
    PyInt(Cardinality({grp.rows[i].customer_id : i \in 1..Len(grp.rows)} \ {NaN}))

\* groupby('customer_state').agg(...).round(2) with the renamed columns: the
\* rows with a null state are in no group, the keys come sorted
state_metrics(geo_sales) ==
    LET keys == SortedStrings({geo_sales.rows[i].customer_state.s :
                    i \in {h \in 1..Len(geo_sales.rows) :
                              ~IsNaN(geo_sales.rows[h].customer_state)}})
    IN  [g \in 1..Len(keys) |->
            LET grp == [rows |-> SelectSeq(geo_sales.rows,
                            LAMBDA r : r.customer_state = Str(keys[g]))]
            IN  [customer_state |-> Str(keys[g]),
                 total_revenue |-> Round2(Sum(Column(grp, "price"))),
                 avg_order_value |-> Round2(Mean(Column(grp, "price"))),
                 total_orders |-> PyInt(Len(grp.rows)),
                 unique_customers |-> unique_customers(grp)]]

\* the tables analyze_geographic_performance can return
analyze_geographic_performance(sales, orders, customers) ==
    LET sales_customers ==
            merge_left(Select(sales, {"order_id", "price"}),
                       Select(orders, {"order_id", "customer_id"}), "order_id")
        geo_sales ==
            merge_left(sales_customers,
                       Select(customers, {"customer_id", "customer_state",
                                          "customer_city"}), "customer_id")
    IN  {RangeIndexed({"customer_state", "total_revenue", "avg_order_value",
                       "total_orders", "unique_customers"}, s) :
            s \in sort_values(state_metrics(geo_sales), "total_revenue")}

----------------------------------------------------------------------------
(* EcommerceMetrics.analyze_customer_satisfaction *)

\* a drop_duplicates that keeps the last row of every key
drop_duplicates_keep_last(t, col) ==
    [columns |-> t.columns,
     rows |-> SelectSeq(t.rows,
        LAMBDA r : ~\E i \in 1..Len(t.rows) :
                        t.rows[i][col] = r[col] /\ t.rows[i].index > r.index)]

\* drop_duplicates(subset=[col]): of the rows with one key the first is kept
drop_duplicates(t, col) ==
    [columns |-> t.columns,
     rows |-> SelectSeq(t.rows,
        LAMBDA r : ~\E i \in 1..Len(t.rows) :
                        t.rows[i][col] = r[col] /\ t.rows[i].index < r.index)]

\* value_counts(normalize=True).sort_index() of the review scores, times 100
\* and rounded: one row per score that occurs, scores ascending
score_distribution(scores) ==
    LET values == Sorted({scores[i].n : i \in 1..Len(scores)})
    IN  [g \in 1..Len(values) |->
            [review_score |-> Num(values[g]),
             percentage |->
                Round1(FMul(FDiv(Num(Cardinality({i \in 1..Len(scores) :
                                                    scores[i] = Num(values[g])})),
                                 Num(Len(scores))),
                            Num(100)))]]

\* groupby('delivery_category').agg({'review_score': ['mean', 'count']}).round(2)
delivery_satisfaction(rows) ==
    LET keys == SortedStrings({rows[i].delivery_category : i \in 1..Len(rows)})
    IN  [g \in 1..Len(keys) |->
            LET grp == [rows |-> SelectSeq(rows, LAMBDA r : r.delivery_category = keys[g])]
            IN  [delivery_category |-> keys[g],
                 avg_review_score |-> Round2(FMean(Column(grp, "review_score"))),
                 review_count |-> PyInt(Len(grp.rows))]]

analyze_customer_satisfaction(sales, reviews) ==
    LET sales_reviews ==
            drop_duplicates(
                merge(Select(sales, {"order_id", "delivery_speed_days", "delivery_category"}),
                      Select(reviews, {"order_id", "review_score"}), "order_id"),
                "order_id")
    IN  [overall_metrics |->
            RangeIndexed({"metric", "value"},
                <<[metric |-> "Average Review Score",
                   value |-> FMean(Column(sales_reviews, "review_score"))],
                  [metric |-> "Total Reviews",
                   value |-> Num(Len(sales_reviews.rows))],
                  [metric |-> "Average Delivery Days",
                   value |-> FMean(Column(sales_reviews, "delivery_speed_days"))]>>),
         delivery_satisfaction |->
            RangeIndexed({"delivery_category", "avg_review_score", "review_count"},
                delivery_satisfaction(sales_reviews.rows)),
         score_distribution |->
            RangeIndexed({"review_score", "percentage"},
                score_distribution(Column(sales_reviews, "review_score")))]

----------------------------------------------------------------------------
(* EcommerceMetrics.calculate_operational_metrics *)

\* .dt.days of delivered - purchase for every row, the cells parsed first
delivery_days(rows) ==
    [i \in 1..Len(rows) |->
        TimedeltaDays(ToTimestamp(rows[i].order_delivered_customer_date),
                      ToTimestamp(rows[i].order_purchase_timestamp))]

\* a mean of the delivery days of all orders, whatever their status
avg_delivery_time_any_status(rows) ==
    IF rows # <<>> THEN FMean(delivery_days(rows)) ELSE PyInt(0)

\* avg_delivery_time: the mean over the delivered orders, the int 0 when
\* there is none
avg_delivery_time(rows) ==
    LET delivered_orders == SelectSeq(rows, LAMBDA r : r.order_status = "delivered")
    IN  IF delivered_orders # <<>> THEN FMean(delivery_days(delivered_orders))
        ELSE PyInt(0)

calculate_operational_metrics(orders, year_wanted) ==
    LET rows == IF Truthy(year_wanted)
                THEN SelectSeq(orders.rows,
                        LAMBDA r :
                            LET ts == ToTimestamp(r.order_purchase_timestamp)
                            IN  DtField(ts, DtYear(ts)) = Num(year_wanted.v))
                ELSE orders.rows
        statuses == {rows[i].order_status : i \in 1..Len(rows)}
        \* value_counts(normalize=True) * 100
        status_dist == [s \in statuses |->
            FMul(FDiv(Num(Cardinality({i \in 1..Len(rows) : rows[i].order_status = s})),
                      Num(Len(rows))),
                 Num(100))]
        get(s) == IF s \in statuses THEN status_dist[s] ELSE PyInt(0)
    IN  Update([total_orders |-> PyInt(Len(rows)),
                delivery_rate_pct |-> get("delivered"),
                cancellation_rate_pct |-> get("canceled"),
                return_rate_pct |-> get("returned"),
                avg_delivery_days |-> avg_delivery_time(rows)],
               [k \in {s \o "_pct" : s \in statuses} |->
                    status_dist[CHOOSE s \in statuses : s \o "_pct" = k]])

----------------------------------------------------------------------------
(* Two callers on one table: the statements of an operation, one at a time *)

Callers == {1, 2}

\* the operations that copy their argument and then assign columns of the copy
AssigningOperations == {"preprocess_dates", "add_time_features", "add_delivery_metrics"}

\* the operations that only read their argument
Calculators == {"calculate_revenue_metrics", "calculate_operational_metrics"}

Operations ==
    AssigningOperations \cup {"filter_delivered_orders", "filter_by_date_range"}
    \cup Calculators

\* the call of operation op on table t, as one caller alone gets it
Run(op, t) ==
    CASE op = "preprocess_dates" -> preprocess_dates(t, DateColumns)
      [] op = "add_time_features" -> add_time_features(t, "order_purchase_timestamp")
      [] op = "add_delivery_metrics" -> add_delivery_metrics(t)
      [] op = "filter_delivered_orders" -> filter_delivered_orders(t)
      [] op = "filter_by_date_range" ->
            filter_by_date_range(t, "order_purchase_timestamp",
                                 Some(2024), Some(2024), None, None)
      [] op = "calculate_revenue_metrics" ->
            calculate_revenue_metrics(t, None, "Current Period",
                                      "Previous Period").value
      [] op = "calculate_operational_metrics" -> calculate_operational_metrics(t, None)

\* a local name bound to the caller's table itself, without a copy
df_itself(c) == 0

\* df_copy = df.copy(): the local name refers to a new table, caller c's own
df_copy(c) == c

\* the local name after the first statement of op: a copy (preprocess_dates,
\* add_time_features, add_delivery_metrics, filter_by_date_range), the new
\* table an indexing builds (filter_delivered_orders), or the argument itself
\* (the calculators)
Bound(op, c) ==
    IF op \in Calculators THEN 0
    ELSE IF op = "filter_delivered_orders" THEN c
    ELSE df_copy(c)

----------------------------------------------------------------------------
(* Inputs of the delivery specification *)

Raw(y, m, d, h) == [isna |-> FALSE, year |-> y, month |-> m, day |-> d, hour |-> h]

RawNull == [isna |-> TRUE, year |-> 0, month |-> 0, day |-> 0, hour |-> 0]

PurchaseCells == {RawNull, Raw(2023, 12, 29, 0), Raw(2023, 12, 29, 12)}

DeliveredCells ==
    {RawNull, Raw(2023, 12, 28, 0),
     Raw(2024, 1, 1, 0), Raw(2024, 1, 1, 12), Raw(2024, 1, 2, 0),
     Raw(2024, 1, 5, 0), Raw(2024, 1, 5, 12), Raw(2024, 1, 6, 0), Raw(2024, 1, 6, 12)}

DeliveryRows ==
    {[order_purchase_timestamp |-> ToTimestamp(p),
      order_delivered_customer_date |-> ToTimestamp(d)] :
        p \in PurchaseCells, d \in DeliveredCells}

\* the tables handed to add_delivery_metrics: with both date columns, or with
\* one of them missing
DeliveryTables ==
    {[columns |-> cs,
      rows |-> [i \in 1..Len(rs) |-> Project(WithColumn(rs[i], "index", i - 1), cs)]] :
        cs \in {DateColumns, {"order_purchase_timestamp"}},
        rs \in SeqsUpTo(DeliveryRows, MaxRows)}

NoBounds == [start_year |-> None, end_year |-> None,
             start_month |-> None, end_month |-> None]

DefaultPeriods == [current_period |-> "Current Period",
                   comparison_period |-> "Previous Period"]

NoMetrics == [k \in {} |-> NaN]

\* the families named in busy apart, nothing has been loaded, passed or computed
Idle(busy) ==
    /\ IF "loader" \in busy THEN TRUE
       ELSE datasets = NoDatasets /\ sales_data = NoTable /\ sales_delivered = NoTable
    /\ IF "filter" \in busy THEN TRUE
       ELSE df = NoTable /\ bounds = NoBounds /\ df_filtered = NoTable
            /\ df_refiltered = NoTable
    /\ IF "revenue" \in busy THEN TRUE
       ELSE current_data = NoTable /\ comparison_data = NoTable
            /\ periods = DefaultPeriods /\ metrics = NoMetrics
    /\ IF "trends" \in busy THEN TRUE
       ELSE data = NoTable /\ year = None /\ trends = NoTable
    /\ IF "products" \in busy THEN TRUE
       ELSE products_data = NoTable /\ top_n = 10 /\ product_analysis = NoDatasets
    /\ IF "files" \in busy THEN TRUE
       ELSE files = NoDatasets /\ changes = 0
    /\ IF "operational" \in busy THEN TRUE
       ELSE orders_data = NoTable /\ target_year = None /\ operational_metrics = NoMetrics
    /\ IF "satisfaction" \in busy THEN TRUE
       ELSE reviews_data = NoTable /\ satisfaction_analysis = NoDatasets
    /\ IF "callers" \in busy THEN TRUE
       ELSE heap = <<>> /\ callers = <<>>
    /\ IF "geographic" \in busy THEN TRUE
       ELSE customers_data = NoTable /\ geo_performance = NoTable
    /\ IF "pipeline" \in busy THEN TRUE
       ELSE years = <<>> /\ printed = <<>>

\* a call touches the variables of its own family only
Frame(busy) ==
    /\ IF "loader" \in busy THEN TRUE ELSE UNCHANGED loaderVars
    /\ IF "filter" \in busy THEN TRUE ELSE UNCHANGED filterVars
    /\ IF "revenue" \in busy THEN TRUE ELSE UNCHANGED revenueVars
    /\ IF "trends" \in busy THEN TRUE ELSE UNCHANGED trendVars
    /\ IF "products" \in busy THEN TRUE ELSE UNCHANGED productVars
    /\ IF "files" \in busy THEN TRUE ELSE UNCHANGED fileVars
    /\ IF "operational" \in busy THEN TRUE ELSE UNCHANGED operationalVars
    /\ IF "satisfaction" \in busy THEN TRUE ELSE UNCHANGED satisfactionVars
    /\ IF "callers" \in busy THEN TRUE ELSE UNCHANGED callerVars
    /\ IF "geographic" \in busy THEN TRUE ELSE UNCHANGED geographicVars
    /\ IF "pipeline" \in busy THEN TRUE ELSE UNCHANGED pipelineVars

InitDelivery ==
    /\ pc = "start"
    /\ raised = ""
    /\ sales_data \in DeliveryTables
    /\ datasets = NoDatasets
    /\ sales_delivered = NoTable
    /\ Idle({"loader"})

AddDeliveryMetrics ==
    /\ pc = "start"
    /\ pc' = "add_delivery_metrics"
    /\ sales_delivered' = add_delivery_metrics(sales_data)
    /\ UNCHANGED <<raised, datasets, sales_data>>
    /\ Frame({"loader"})

NextDelivery == AddDeliveryMetrics

SpecDelivery == InitDelivery /\ [][NextDelivery]_vars

----------------------------------------------------------------------------
(* Inputs of the sales specification: the raw orders and order_items tables *)

OrderIds == {1, 2}

\* rows of orders_dataset.csv: two orders, each in two versions
OrderRows ==
    {[order_id |-> 1, customer_id |-> "c1", order_status |-> "delivered",
      order_purchase_timestamp |-> Raw(2023, 12, 31, 12),
      order_delivered_customer_date |-> Raw(2024, 1, 4, 0)],
     [order_id |-> 1, customer_id |-> "c1", order_status |-> "canceled",
      order_purchase_timestamp |-> Raw(2024, 2, 29, 0),
      order_delivered_customer_date |-> RawNull],
     [order_id |-> 2, customer_id |-> "c2", order_status |-> "delivered",
      order_purchase_timestamp |-> Raw(2024, 3, 1, 0),
      order_delivered_customer_date |-> Raw(2024, 3, 9, 12)],
     [order_id |-> 2, customer_id |-> "c2", order_status |-> "shipped",
      order_purchase_timestamp |-> RawNull,
      order_delivered_customer_date |-> RawNull]}

\* rows of order_items_dataset.csv: an item of order 1, 2 or of the unknown order 3
ItemRows ==
    {[order_id |-> o, product_id |-> "P1", price |-> p, freight_value |-> 0] :
        o \in OrderIds \cup {3}, p \in {100, 25}}

\* order_item_id numbers the items of one order 1, 2, ...
NumberItems(rs) ==
    [i \in 1..Len(rs) |->
        WithColumn(rs[i], "order_item_id",
            1 + Cardinality({h \in 1..(i - 1) : rs[h].order_id = rs[i].order_id}))]

OrdersTables == {RangeIndexed(OrderColumns, rs) : rs \in SeqsUpTo(OrderRows, MaxOrders)}

ItemsTables ==
    {RangeIndexed(ItemColumns, NumberItems(rs)) : rs \in SeqsUpTo(ItemRows, MaxItems)}

UniqueOrderIds(t) ==
    \A i, j \in 1..Len(t.rows) : t.rows[i].order_id = t.rows[j].order_id => i = j

\* the table without column c
DropColumn(t, c) == Select(t, t.columns \ {c})

\* what load_all_datasets can leave in self.datasets: both tables; one of them
\* missing; or a table without one of its columns
SalesDatasets ==
    {[n \in {"order_items", "orders"} |-> IF n = "orders" THEN o ELSE it] :
        o \in OrdersTables, it \in ItemsTables}
    \cup {[n \in {"orders"} |-> o] : o \in OrdersTables}
    \cup {[n \in {"order_items"} |-> it] : it \in ItemsTables}
    \cup {[n \in {"order_items", "orders"} |->
              IF n = "orders" THEN DropColumn(o, "order_delivered_customer_date") ELSE it] :
            o \in OrdersTables, it \in {RangeIndexed(ItemColumns, <<>>)}}

InitSales ==
    /\ pc = "start"
    /\ raised = ""
    /\ datasets \in SalesDatasets
    /\ sales_data = NoTable
    /\ sales_delivered = NoTable
    /\ Idle({"loader"})

CreateSalesDataset ==
    /\ pc \in {"start", "load_all_datasets"}
    /\ pc' = "create_sales_dataset"
    /\ LET r == create_sales_dataset(datasets)
       IN  /\ raised' = r.raised
           /\ sales_data' = IF r.raised = "" THEN r.table ELSE sales_data
    /\ UNCHANGED <<datasets, sales_delivered>>
    /\ Frame({"loader"})

NextSales == CreateSalesDataset

SpecSales == InitSales /\ [][NextSales]_vars

----------------------------------------------------------------------------
(* Inputs of the filter specification *)

FilterCells ==
    {RawNull, Raw(2022, 12, 31, 23), Raw(2023, 1, 1, 0), Raw(2023, 6, 15, 12),
     Raw(2024, 1, 31, 0)}

\* tables with the time features of the purchase timestamp, as
\* add_time_features derives them
TimedTables ==
    {add_time_features(
        preprocess_dates(
            RangeIndexed({"order_purchase_timestamp"},
                         [i \in 1..Len(cs) |-> [order_purchase_timestamp |-> cs[i]]]),
            DateColumns),
        "order_purchase_timestamp") : cs \in SeqsUpTo(FilterCells, MaxFilterRows)}

\* the tables handed to filter_by_date_range: with the year and the month
\* column, or without one of them
FilterTables ==
    TimedTables
    \cup {DropColumn(t, "order_purchase_timestamp_year") : t \in TimedTables}
    \cup {DropColumn(t, "order_purchase_timestamp_month") : t \in TimedTables}

YearBounds == {None, Some(0), Some(2023)}

MonthBounds == {None, Some(0), Some(6)}

InitFilter ==
    /\ pc = "start"
    /\ raised = ""
    /\ df \in FilterTables
    /\ bounds \in [start_year : YearBounds, end_year : YearBounds,
                   start_month : MonthBounds, end_month : MonthBounds]
    /\ df_filtered = NoTable
    /\ df_refiltered = NoTable
    /\ Idle({"filter"})

\* loader.filter_by_date_range(df, 'order_purchase_timestamp', ...)
FilterByDateRange ==
    /\ pc = "start"
    /\ pc' = "filter_by_date_range"
    /\ df_filtered' = filter_by_date_range(df, "order_purchase_timestamp",
                            bounds.start_year, bounds.end_year,
                            bounds.start_month, bounds.end_month)
    /\ df' = df_after_filter(df, "order_purchase_timestamp",
                            bounds.start_year, bounds.end_year,
                            bounds.start_month, bounds.end_month)
    /\ UNCHANGED <<raised, bounds, df_refiltered>>
    /\ Frame({"filter"})

\* the same call on the table the first call returned
FilterAgain ==
    /\ pc = "filter_by_date_range"
    /\ pc' = "filter_by_date_range again"
    /\ df_refiltered' = filter_by_date_range(df_filtered, "order_purchase_timestamp",
                            bounds.start_year, bounds.end_year,
                            bounds.start_month, bounds.end_month)
    /\ df_filtered' = df_after_filter(df_filtered, "order_purchase_timestamp",
                            bounds.start_year, bounds.end_year,
                            bounds.start_month, bounds.end_month)
    /\ UNCHANGED <<raised, df, bounds>>
    /\ Frame({"filter"})

NextFilter == FilterByDateRange \/ FilterAgain

SpecFilter == InitFilter /\ [][NextFilter]_vars

----------------------------------------------------------------------------
(* Inputs of the revenue specification *)

\* line items of two orders, free, cheap or expensive
RevenueRows == {[order_id |-> o, price |-> p] : o \in OrderIds, p \in {0, 5, 20}}

RevenueTables(n) ==
    {RangeIndexed({"order_id", "price"}, rs) : rs \in SeqsUpTo(RevenueRows, n)}

\* the labels of the two periods: the defaults, two years as the dashboard
\* passes them, and the same year twice (the dashboard's first year)
PeriodLabels ==
    {DefaultPeriods,
     [current_period |-> "2023", comparison_period |-> "2022"],
     [current_period |-> "2022", comparison_period |-> "2022"]}

InitRevenue ==
    /\ pc = "start"
    /\ raised = ""
    /\ current_data \in RevenueTables(MaxCurrentRows)
    /\ comparison_data \in {None} \cup RevenueTables(MaxComparisonRows)
    /\ periods \in PeriodLabels
    /\ metrics = NoMetrics
    /\ Idle({"revenue"})

CalculateRevenueMetrics ==
    /\ pc = "start"
    /\ pc' = "calculate_revenue_metrics"
    /\ LET r == calculate_revenue_metrics(current_data, comparison_data,
                    periods.current_period, periods.comparison_period)
       IN  /\ raised' = r.raised
           /\ metrics' = IF r.raised = "" THEN r.value ELSE metrics
    /\ UNCHANGED <<current_data, comparison_data, periods>>
    /\ Frame({"revenue"})

NextRevenue == CalculateRevenueMetrics

SpecRevenue == InitRevenue /\ [][NextRevenue]_vars

----------------------------------------------------------------------------
(* Inputs of the trends specification *)

TrendCells == {RawNull, Raw(2022, 12, 31, 23), Raw(2023, 1, 1, 0), Raw(2023, 6, 15, 12)}

TrendRows ==
    {[order_id |-> o, price |-> p, order_purchase_timestamp |-> c] :
        o \in OrderIds, p \in {0, 5, 20}, c \in TrendCells}

\* sales tables with the time features of the purchase timestamp
TrendTables ==
    {add_time_features(
        preprocess_dates(
            RangeIndexed({"order_id", "price", "order_purchase_timestamp"}, rs),
            DateColumns),
        "order_purchase_timestamp") : rs \in SeqsUpTo(TrendRows, MaxTrendRows)}

TrendYears == {None, Some(2022), Some(2023)}

InitTrends ==
    /\ pc = "start"
    /\ raised = ""
    /\ data \in TrendTables
    /\ year \in TrendYears
    /\ trends = NoTable
    /\ Idle({"trends"})

CalculateMonthlyTrends ==
    /\ pc = "start"
    /\ pc' = "calculate_monthly_trends"
    /\ trends' = calculate_monthly_trends(data, year)
    /\ UNCHANGED <<raised, data, year>>
    /\ Frame({"trends"})

NextTrends == CalculateMonthlyTrends

SpecTrends == InitTrends /\ [][NextTrends]_vars

----------------------------------------------------------------------------
(* Inputs of the product specification *)

\* line items of three products; P3 is in no row of the products table
ProductSalesRows ==
    {[product_id |-> p, price |-> a, order_id |-> o] :
        p \in {"P1", "P2", "P3"}, a \in {5, 20}, o \in OrderIds}

ProductSalesTables ==
    {RangeIndexed({"product_id", "price", "order_id"}, rs) :
        rs \in SeqsUpTo(ProductSalesRows, MaxSalesRows)}

\* products_dataset.csv: one row per product, the category of P1 can be null
ProductsTables ==
    {RangeIndexed({"product_id", "product_category_name"},
        <<[product_id |-> "P1", product_category_name |-> c1],
          [product_id |-> "P2", product_category_name |-> c2]>>) :
        c1 \in {Str("toys"), NaN}, c2 \in {Str("toys"), Str("books")}}

\* top_n: none, fewer than the groups there can be, and the default
TopNs == {0, 1, 2, 10}

InitProducts ==
    /\ pc = "start"
    /\ raised = ""
    /\ datasets = NoDatasets
    /\ sales_data \in ProductSalesTables
    /\ sales_delivered = NoTable
    /\ products_data \in ProductsTables
    /\ top_n \in TopNs
    /\ product_analysis = NoDatasets
    /\ Idle({"loader", "products"})

AnalyzeProductPerformance ==
    /\ pc = "start"
    /\ pc' = "analyze_product_performance"
    /\ product_analysis' \in analyze_product_performance(sales_data, products_data, top_n)
    /\ UNCHANGED <<raised, products_data, top_n>>
    /\ Frame({"products"})

NextProducts == AnalyzeProductPerformance

SpecProducts == InitProducts /\ [][NextProducts]_vars

----------------------------------------------------------------------------
(* The loader specification: one loader, and the files in data_path changing *)
(* between its calls                                                        *)

\* the six files, complete: one delivered order with one item
CompleteFiles ==
    [n \in DatasetNames |->
        CASE n = "orders" ->
                RangeIndexed(OrderColumns,
                    <<CHOOSE r \in OrderRows :
                        r.order_id = 1 /\ r.order_status = "delivered">>)
          [] n = "order_items" ->
                RangeIndexed(ItemColumns,
                    NumberItems(<<CHOOSE r \in ItemRows :
                                    r.order_id = 1 /\ r.price = 100>>))
          [] n = "products" -> RangeIndexed({"product_id", "product_category_name"}, <<>>)
          [] n = "customers" -> RangeIndexed({"customer_id", "customer_state"}, <<>>)
          [] n = "reviews" -> RangeIndexed({"order_id", "review_score"}, <<>>)
          [] n = "payments" -> RangeIndexed({"order_id", "payment_value"}, <<>>)]

\* what the file of dataset n can hold: the complete table, or for orders and
\* order_items a table without the join column or without a date column
FileContents(n) ==
    {CompleteFiles[n]}
    \cup (IF n = "orders"
          THEN {DropColumn(CompleteFiles[n], c) :
                    c \in {"order_id", "order_purchase_timestamp",
                           "order_delivered_customer_date"}}
          ELSE IF n = "order_items" THEN {DropColumn(CompleteFiles[n], "order_id")}
          ELSE {})

\* after EcommerceDataLoader(data_path): nothing loaded; the directory holds
\* all six files or none
InitLoader ==
    /\ pc = "start"
    /\ raised = ""
    /\ datasets = NoDatasets
    /\ sales_data = NoTable
    /\ sales_delivered = NoTable
    /\ files \in {CompleteFiles, NoDatasets}
    /\ changes = 0
    /\ Idle({"loader", "files"})

\* somebody writes the file of a dataset
WriteFile ==
    /\ changes < MaxFileChanges
    /\ changes' = changes + 1
    /\ \E n \in DatasetNames : \E t \in FileContents(n) :
            /\ IF n \in DOMAIN files THEN files[n] # t ELSE TRUE
            /\ files' = [m \in (DOMAIN files) \cup {n} |-> IF m = n THEN t ELSE files[m]]
    /\ UNCHANGED <<pc, raised>>
    /\ Frame({"files"})

\* somebody removes the file of a dataset
RemoveFile ==
    /\ changes < MaxFileChanges
    /\ changes' = changes + 1
    /\ \E n \in DOMAIN files : files' = [m \in (DOMAIN files) \ {n} |-> files[m]]
    /\ UNCHANGED <<pc, raised>>
    /\ Frame({"files"})

LoadAllDatasets ==
    /\ pc' = "load_all_datasets"
    /\ raised' = ""
    /\ datasets' = load_all_datasets(datasets, files)
    /\ UNCHANGED <<sales_data, sales_delivered, files, changes>>
    /\ Frame({"loader", "files"})

NextLoader == WriteFile \/ RemoveFile \/ LoadAllDatasets \/ CreateSalesDataset

SpecLoader == InitLoader /\ [][NextLoader]_vars

----------------------------------------------------------------------------
(* Inputs of the operational specification *)

\* rows of the orders table: delivered with or without a delivery date,
\* canceled without one, returned with one
OperationalRows ==
    {[customer_id |-> "c1", order_status |-> "delivered",
      order_purchase_timestamp |-> p, order_delivered_customer_date |-> d] :
        p \in {Raw(2023, 12, 31, 12), Raw(2024, 1, 1, 0)},
        d \in {RawNull, Raw(2024, 1, 4, 0), Raw(2024, 1, 9, 0)}}
    \cup {[customer_id |-> "c1", order_status |-> "canceled",
           order_purchase_timestamp |-> p, order_delivered_customer_date |-> RawNull] :
        p \in {Raw(2023, 12, 31, 12), Raw(2024, 1, 1, 0)}}
    \cup {[customer_id |-> "c1", order_status |-> "returned",
           order_purchase_timestamp |-> p,
           order_delivered_customer_date |-> Raw(2024, 1, 9, 0)] :
        p \in {Raw(2023, 12, 31, 12), Raw(2024, 1, 1, 0)}}

\* orders tables: order_id is unique
OperationalTables ==
    {RangeIndexed(OrderColumns,
        [i \in 1..Len(rs) |-> WithColumn(rs[i], "order_id", i)]) :
        rs \in SeqsUpTo(OperationalRows, MaxOrders)}

InitOperational ==
    /\ pc = "start"
    /\ raised = ""
    /\ orders_data \in OperationalTables
    /\ target_year \in {None, Some(2023), Some(2024)}
    /\ operational_metrics = NoMetrics
    /\ Idle({"operational"})

CalculateOperationalMetrics ==
    /\ pc = "start"
    /\ pc' = "calculate_operational_metrics"
    /\ operational_metrics' = calculate_operational_metrics(orders_data, target_year)
    /\ UNCHANGED <<raised, orders_data, target_year>>
    /\ Frame({"operational"})

NextOperational == CalculateOperationalMetrics

SpecOperational == InitOperational /\ [][NextOperational]_vars

----------------------------------------------------------------------------
(* Inputs of the satisfaction specification *)

\* line items of two orders, delivered after 3 days or without a delivery date
SatisfactionSalesTables ==
    {RangeIndexed({"order_id", "delivery_speed_days", "delivery_category"}, rs) :
        rs \in SeqsUpTo(
            {[order_id |-> o, delivery_speed_days |-> d,
              delivery_category |-> categorize_delivery_speed(d)] :
                o \in OrderIds, d \in {Num(3), NaN}},
            MaxSalesRows)}

\* reviews of order 1 (a bad and a good one), of order 2 and of the order 3
\* that has no line item
ReviewsTables ==
    {RangeIndexed({"order_id", "review_score"}, rs) :
        rs \in SeqsUpTo(
            {[order_id |-> 1, review_score |-> Num(1)],
             [order_id |-> 1, review_score |-> Num(5)],
             [order_id |-> 2, review_score |-> Num(5)],
             [order_id |-> 3, review_score |-> Num(1)]},
            MaxReviews)}

InitSatisfaction ==
    /\ pc = "start"
    /\ raised = ""
    /\ datasets = NoDatasets
    /\ sales_data \in SatisfactionSalesTables
    /\ sales_delivered = NoTable
    /\ reviews_data \in ReviewsTables
    /\ satisfaction_analysis = NoDatasets
    /\ Idle({"loader", "satisfaction"})

AnalyzeCustomerSatisfaction ==
    /\ pc = "start"
    /\ pc' = "analyze_customer_satisfaction"
    /\ satisfaction_analysis' = analyze_customer_satisfaction(sales_data, reviews_data)
    /\ UNCHANGED <<raised, reviews_data>>
    /\ Frame({"satisfaction"})

NextSatisfaction == AnalyzeCustomerSatisfaction

SpecSatisfaction == InitSatisfaction /\ [][NextSatisfaction]_vars

----------------------------------------------------------------------------
(* The pipeline specification: load_and_prepare_data, then the revenue *)
(* metrics of the table it returns                                     *)

\* the directories: all six files, orders_dataset.csv with unique order ids,
\* or an empty directory
PipelineFiles ==
    {[n \in DatasetNames |->
        IF n = "orders" THEN o ELSE IF n = "order_items" THEN it ELSE CompleteFiles[n]] :
        o \in {t \in OrdersTables : UniqueOrderIds(t)}, it \in ItemsTables}
    \cup {NoDatasets}

\* target_year and comparison_year: left out, or years of the orders
YearArguments ==
    {[target_year |-> t, comparison_year |-> c] :
        t \in {None, Some(2023), Some(2024)}, c \in {None, Some(2023)}}

InitPipeline ==
    /\ pc = "start"
    /\ raised = ""
    /\ datasets = NoDatasets
    /\ sales_data = NoTable
    /\ sales_delivered = NoTable
    /\ files \in PipelineFiles
    /\ changes = 0
    /\ years \in YearArguments
    /\ printed = <<>>
    /\ Idle({"loader", "files", "pipeline"})

LoadAndPrepareData ==
    /\ pc = "start"
    /\ pc' = "load_and_prepare_data"
    /\ LET r == load_and_prepare_data(files, years.target_year, years.comparison_year)
       IN  /\ raised' = r.raised
           /\ datasets' = r.datasets
           /\ sales_data' = r.sales_data
           /\ sales_delivered' = r.sales_delivered
           /\ printed' = r.printed
    /\ UNCHANGED years
    /\ Frame({"loader", "pipeline"})

\* calculate_revenue_metrics(sales_delivered), no comparison period
RevenueOfDelivered ==
    /\ pc = "load_and_prepare_data"
    /\ raised = ""
    /\ pc' = "calculate_revenue_metrics"
    /\ current_data' = sales_delivered
    /\ comparison_data' = None
    /\ LET r == calculate_revenue_metrics(sales_delivered, None,
                    periods.current_period, periods.comparison_period)
       IN  /\ raised' = r.raised
           /\ metrics' = r.value
    /\ UNCHANGED periods
    /\ Frame({"revenue"})

NextPipeline == LoadAndPrepareData \/ RevenueOfDelivered

SpecPipeline == InitPipeline /\ [][NextPipeline]_vars

----------------------------------------------------------------------------
(* The aggregates specification: the calculators on empty and on short tables *)

\* a table of t's columns without rows
Emptied(t) == [columns |-> t.columns, rows |-> <<>>]

\* the arguments of one calculator, short or empty, the tables of the other
\* calculators empty
AggregateInputs ==
    LET short(T) == {t \in T : Len(t.rows) <= MaxAggregateRows}
        no_sales == Emptied(CHOOSE t \in SatisfactionSalesTables : TRUE)
        no_reviews == Emptied(CHOOSE t \in ReviewsTables : TRUE)
        no_trend == Emptied(CHOOSE t \in TrendTables : TRUE)
        no_revenue == Emptied(CHOOSE t \in RevenueTables(0) : TRUE)
    IN  {[current_data |-> c, data |-> no_trend, year |-> None,
          sales_data |-> no_sales, reviews_data |-> no_reviews] :
            c \in RevenueTables(MaxAggregateRows)}
        \cup {[current_data |-> no_revenue, data |-> t, year |-> y,
               sales_data |-> no_sales, reviews_data |-> no_reviews] :
            t \in short(TrendTables), y \in TrendYears}
        \cup {[current_data |-> no_revenue, data |-> no_trend, year |-> None,
               sales_data |-> s, reviews_data |-> r] :
            s \in short(SatisfactionSalesTables), r \in short(ReviewsTables)}

InitAggregates ==
    /\ pc = "start"
    /\ raised = ""
    /\ \E a \in AggregateInputs :
            /\ current_data = a.current_data
            /\ data = a.data
            /\ year = a.year
            /\ sales_data = a.sales_data
            /\ reviews_data = a.reviews_data
    /\ comparison_data = None
    /\ periods = DefaultPeriods
    /\ metrics = NoMetrics
    /\ trends = NoTable
    /\ datasets = NoDatasets
    /\ sales_delivered = NoTable
    /\ satisfaction_analysis = NoDatasets
    /\ Idle({"loader", "revenue", "trends", "satisfaction"})

NextAggregates ==
    CalculateRevenueMetrics \/ CalculateMonthlyTrends \/ AnalyzeCustomerSatisfaction

SpecAggregates == InitAggregates /\ [][NextAggregates]_vars

----------------------------------------------------------------------------
(* The specification of two callers on one table *)

\* the table both callers hold: a prepared sales table, as
\* create_sales_dataset returns it
SharedTables ==
    {add_time_features(
        preprocess_dates(
            RangeIndexed({"order_id", "price"} \cup OrderColumns, rs), DateColumns),
        "order_purchase_timestamp") :
        rs \in SeqsUpTo(
            {[order_id |-> 1, price |-> 20, customer_id |-> "c1", order_status |-> s,
              order_purchase_timestamp |-> d[1], order_delivered_customer_date |-> d[2]] :
                s \in {"delivered", "canceled"},
                d \in {<<Raw(2023, 12, 31, 12), Raw(2024, 1, 4, 0)>>,
                       <<Raw(2024, 3, 1, 0), RawNull>>}},
            MaxSharedRows)}

InitConcurrent ==
    /\ pc = "start"
    /\ raised = ""
    /\ \E t \in SharedTables : heap = [o \in {0} \cup Callers |-> IF o = 0 THEN t ELSE NoTable]
    /\ callers = [c \in Callers |-> [op |-> "", at |-> "idle", ref |-> 0, result |-> NoTable]]
    /\ Idle({"callers"})

\* caller c calls an operation with the shared table
Call(c) ==
    /\ callers[c].at = "idle"
    /\ \E op \in Operations :
            callers' = [callers EXCEPT ![c].op = op, ![c].at = "called"]
    /\ UNCHANGED <<pc, raised, heap>>
    /\ Frame({"callers"})

\* the first statement: the local name is bound; a copy or an indexing reads
\* the argument into a new table
Bind(c) ==
    /\ callers[c].at = "called"
    /\ LET op  == callers[c].op
           ref == Bound(op, c)
       IN  /\ callers' = [callers EXCEPT ![c].ref = ref, ![c].at = "bound"]
           /\ heap' = IF ref = 0 \/ op \in Calculators THEN heap
                      ELSE [heap EXCEPT ![ref] =
                              IF op = "filter_delivered_orders" THEN Run(op, heap[0])
                              ELSE heap[0]]
    /\ UNCHANGED <<pc, raised>>
    /\ Frame({"callers"})

\* the statements in between: column assignments change the table the local
\* name refers to; an indexing (df_filtered[...]) builds a new table
Work(c) ==
    /\ callers[c].at = "bound"
    /\ LET op  == callers[c].op
           ref == callers[c].ref
       IN  IF op \in AssigningOperations
           THEN /\ heap' = [heap EXCEPT ![ref] = Run(op, heap[ref])]
                /\ callers' = [callers EXCEPT ![c].at = "worked"]
           ELSE IF op = "filter_by_date_range"
           THEN /\ heap' = [heap EXCEPT ![c] = Run(op, heap[ref])]
                /\ callers' = [callers EXCEPT ![c].ref = c, ![c].at = "worked"]
           ELSE /\ heap' = heap
                /\ callers' = [callers EXCEPT ![c].at = "worked"]
    /\ UNCHANGED <<pc, raised>>
    /\ Frame({"callers"})

\* the return statement: the table the local name refers to, or the dict a
\* calculator builds from its argument
Finish(c) ==
    /\ callers[c].at = "worked"
    /\ LET op  == callers[c].op
           ref == callers[c].ref
       IN  callers' = [callers EXCEPT ![c].at = "done",
                          ![c].result = IF op \in Calculators THEN Run(op, heap[ref])
                                        ELSE heap[ref]]
    /\ UNCHANGED <<pc, raised, heap>>
    /\ Frame({"callers"})

NextConcurrent == \E c \in Callers : Call(c) \/ Bind(c) \/ Work(c) \/ Finish(c)

SpecConcurrent == InitConcurrent /\ [][NextConcurrent]_vars

----------------------------------------------------------------------------
(* The geographic specification *)

\* line items of the orders 1 and 2 and of an order the orders table lacks
GeoSalesTables ==
    {RangeIndexed({"order_id", "price"}, rs) :
        rs \in SeqsUpTo({[order_id |-> o, price |-> p] : o \in {1, 2, 3}, p \in {5, 20}},
                        MaxSalesRows)}

\* orders_dataset.csv: one row per order; c3 is a customer the customers
\* table lacks
GeoOrdersTables ==
    {RangeIndexed({"order_id", "customer_id"},
        <<[order_id |-> 1, customer_id |-> Str(a)],
          [order_id |-> 2, customer_id |-> Str(b)]>>) :
        a \in {"c1", "c2"}, b \in {"c1", "c2", "c3"}}

\* customers_dataset.csv: one row per customer
CustomersTables ==
    {RangeIndexed({"customer_id", "customer_state", "customer_city"},
        <<[customer_id |-> Str("c1"), customer_state |-> s1, customer_city |-> Str("city")],
          [customer_id |-> Str("c2"), customer_state |-> s2, customer_city |-> Str("city")]>>) :
        s1 \in {Str("SP"), Str("RJ")}, s2 \in {Str("SP"), Str("RJ"), NaN}}

InitGeographic ==
    /\ pc = "start"
    /\ raised = ""
    /\ datasets = NoDatasets
    /\ sales_data \in GeoSalesTables
    /\ sales_delivered = NoTable
    /\ orders_data \in GeoOrdersTables
    /\ target_year = None
    /\ operational_metrics = NoMetrics
    /\ customers_data \in CustomersTables
    /\ geo_performance = NoTable
    /\ Idle({"loader", "operational", "geographic"})

AnalyzeGeographicPerformance ==
    /\ pc = "start"
    /\ pc' = "analyze_geographic_performance"
    /\ geo_performance' \in
            analyze_geographic_performance(sales_data, orders_data, customers_data)
    /\ UNCHANGED <<raised, customers_data>>
    /\ Frame({"geographic"})

NextGeographic == AnalyzeGeographicPerformance

SpecGeographic == InitGeographic /\ [][NextGeographic]_vars

----------------------------------------------------------------------------
(* C1 *)

\* C1: every row processed by add_delivery_metrics (on a table that has both
\* date columns) keeps its place and gets delivery_speed_days undefined and
\* delivery_category "Unknown" when the delivered date or the purchase
\* timestamp is null, and otherwise the whole-day difference delivered -
\* purchased with "1-3 days" for days <= 3, "4-7 days" for 3 < days <= 7 and
\* "8+ days" for days > 7.
C1_DeliveryBuckets ==
    (pc = "add_delivery_metrics" /\ DateColumns \subseteq sales_data.columns) =>
        /\ Len(sales_delivered.rows) = Len(sales_data.rows)
        /\ \A i \in 1..Len(sales_data.rows) :
            LET in  == sales_data.rows[i]
                out == sales_delivered.rows[i]
                p   == in.order_purchase_timestamp
                d   == in.order_delivered_customer_date
                k   == out.delivery_speed_days
            IN  /\ out.index = in.index
                /\ out.order_purchase_timestamp = p
                /\ out.order_delivered_customer_date = d
                /\ (p.isna \/ d.isna) =>
                      (k.kind = "nan" /\ out.delivery_category = "Unknown")
                /\ ~(p.isna \/ d.isna) =>
                      /\ k.kind = "num" /\ k.d = 1
                      /\ 24 * k.n <= d.value - p.value
                      /\ d.value - p.value < 24 * (k.n + 1)
                      /\ (k.n <= 3) => out.delivery_category = "1-3 days"
                      /\ (3 < k.n /\ k.n <= 7) => out.delivery_category = "4-7 days"
                      /\ (k.n > 7) => out.delivery_category = "8+ days"

\* a processed table with a row delivered after 7.5 days (7 whole days, the
\* inclusive upper bound of "4-7 days"), and a row without a delivered date
C1_Witness ==
    /\ pc = "add_delivery_metrics"
    /\ DateColumns \subseteq sales_data.columns
    /\ \E i, j \in 1..Len(sales_delivered.rows) :
        /\ ~sales_data.rows[i].order_purchase_timestamp.isna
        /\ ~sales_data.rows[i].order_delivered_customer_date.isna
        /\ sales_data.rows[i].order_delivered_customer_date.value
              - sales_data.rows[i].order_purchase_timestamp.value = 180
        /\ sales_delivered.rows[i].delivery_speed_days = Num(7)
        /\ sales_delivered.rows[i].delivery_category = "4-7 days"
        /\ sales_data.rows[j].order_delivered_customer_date.isna
        /\ sales_delivered.rows[j].delivery_category = "Unknown"

----------------------------------------------------------------------------
(* C2, C3 *)

\* the call create_sales_dataset returned a table
SalesBuilt == pc = "create_sales_dataset" /\ raised = ""

\* the rows of order_items whose order_id exists in orders
MatchedItems ==
    {i \in 1..Len(datasets["order_items"].rows) :
        \E j \in 1..Len(datasets["orders"].rows) :
            datasets["orders"].rows[j].order_id = datasets["order_items"].rows[i].order_id}

\* the rows of the sales table that come from row i of order_items
SalesRowsOf(i) ==
    LET item == datasets["order_items"].rows[i]
    IN  {k \in 1..Len(sales_data.rows) :
            /\ sales_data.rows[k].order_id = item.order_id
            /\ sales_data.rows[k].order_item_id = item.order_item_id
            /\ sales_data.rows[k].price = item.price}

\* C2: with order_id unique in orders, the table built by create_sales_dataset
\* has exactly as many rows as there are order_items rows whose order_id exists
\* in orders, never more rows than order_items; an item whose order is missing
\* is dropped and every other item occurs exactly once.
C2_InnerJoinRowCount ==
    (SalesBuilt /\ UniqueOrderIds(datasets["orders"])) =>
        /\ Len(sales_data.rows) = Cardinality(MatchedItems)
        /\ Len(sales_data.rows) <= Len(datasets["order_items"].rows)
        /\ \A i \in 1..Len(datasets["order_items"].rows) :
              Cardinality(SalesRowsOf(i)) = IF i \in MatchedItems THEN 1 ELSE 0

\* two items, the first of an order that is not in orders, joined to two orders
C2_Witness ==
    /\ SalesBuilt
    /\ UniqueOrderIds(datasets["orders"])
    /\ Len(datasets["orders"].rows) = 2
    /\ Len(datasets["order_items"].rows) = 2
    /\ MatchedItems = {2}
    /\ Len(sales_data.rows) = 1
    /\ sales_data.rows[1].price = datasets["order_items"].rows[2].price

\* C3 as stated: the row count of the table built by create_sales_dataset is at
\* most min(len(order_items), len(orders)); stated here for the tables of the
\* data model only, in which order_id is unique in orders.
C3_AtMostMinOfBoth ==
    (SalesBuilt /\ UniqueOrderIds(datasets["orders"])) =>
        Len(sales_data.rows) <= Min(Len(datasets["order_items"].rows),
                                    Len(datasets["orders"].rows))

\* C3 amended: the row count is at most len(order_items) * len(orders), and at
\* most len(order_items) when order_id is unique in orders; len(orders) is no
\* bound for it.
C3_AtMostItems ==
    SalesBuilt =>
        /\ Len(sales_data.rows)
              <= Len(datasets["order_items"].rows) * Len(datasets["orders"].rows)
        /\ UniqueOrderIds(datasets["orders"]) =>
              Len(sales_data.rows) <= Len(datasets["order_items"].rows)

\* one order with several items: more sales rows than orders
C3_Witness ==
    /\ SalesBuilt
    /\ UniqueOrderIds(datasets["orders"])
    /\ Len(datasets["orders"].rows) = 1
    /\ Len(sales_data.rows) = Len(datasets["order_items"].rows)
    /\ Len(sales_data.rows) > Len(datasets["orders"].rows)

----------------------------------------------------------------------------
(* C9, C10 *)

\* row r satisfies bound b on column col (ge: r[col] >= b, else r[col] <= b);
\* an omitted bound and a bound on a column the table lacks hold of every row
SatisfiesBound(t, r, col, ge, b) ==
    (~b.none /\ col \in t.columns) =>
        (/\ r[col].kind = "num"
         /\ IF ge THEN r[col].n >= b.v * r[col].d ELSE r[col].n <= b.v * r[col].d)

SatisfiesAllBounds(t, r) ==
    /\ SatisfiesBound(t, r, "order_purchase_timestamp_year", TRUE, bounds.start_year)
    /\ SatisfiesBound(t, r, "order_purchase_timestamp_year", FALSE, bounds.end_year)
    /\ SatisfiesBound(t, r, "order_purchase_timestamp_month", TRUE, bounds.start_month)
    /\ SatisfiesBound(t, r, "order_purchase_timestamp_month", FALSE, bounds.end_month)

\* C9: filter_by_date_range returns exactly the rows of its input that satisfy
\* every supplied bound, inclusively, for every integer value of a supplied
\* bound; an omitted bound and a bound on an absent column impose nothing.
C9_ExactlyRowsWithinBounds ==
    (pc = "filter_by_date_range") =>
        /\ df_filtered.columns = df.columns
        /\ df_filtered.rows = SelectSeq(df.rows, LAMBDA r : SatisfiesAllBounds(df, r))

\* C10: filtering the already filtered table again with the same bounds
\* returns a table identical to the first result.
C10_FilterIdempotent ==
    (pc = "filter_by_date_range again") => df_refiltered = df_filtered

\* the first call dropped the first row and kept another, the second call
\* ran on that result with bounds on year and month
C10_Witness ==
    /\ pc = "filter_by_date_range again"
    /\ Truthy(bounds.start_year) /\ Truthy(bounds.end_month)
    /\ Len(df.rows) = 2
    /\ Len(df_filtered.rows) = 1
    /\ df_filtered.rows[1].index = 1
    /\ Len(df_refiltered.rows) = 1

----------------------------------------------------------------------------
(* C4, C5, C6, C7 *)

\* the sum of price over the rows of t at the positions I
RECURSIVE PriceOver(_, _)
PriceOver(t, I) ==
    IF I = {} THEN 0
    ELSE LET i == CHOOSE x \in I : TRUE
         IN  t.rows[i].price + PriceOver(t, I \ {i})

TotalPrice(t) == PriceOver(t, 1..Len(t.rows))

DistinctOrders(t) == Cardinality({t.rows[i].order_id : i \in 1..Len(t.rows)})

\* calculate_revenue_metrics returned a dict in which the current period's
\* keys are its own: no comparison table, or another label for it
RevenueReported ==
    /\ pc = "calculate_revenue_metrics"
    /\ raised = ""
    /\ comparison_data = None \/ periods.current_period # periods.comparison_period

\* C4: for a non-empty sales table, calculate_revenue_metrics reports
\* total_revenue = the sum of price over all rows, total_items = the number of
\* rows and total_orders = the number of distinct order_id values.
C4_RevenueTotals ==
    (RevenueReported /\ current_data.rows # <<>>) =>
        /\ metrics[periods.current_period \o "_total_revenue"]
              = Num(TotalPrice(current_data))
        /\ metrics[periods.current_period \o "_total_items"]
              = PyInt(Len(current_data.rows))
        /\ metrics[periods.current_period \o "_total_orders"]
              = PyInt(DistinctOrders(current_data))

\* two line items of one order: 2 items, 1 order, revenue 25
C4_Witness ==
    /\ RevenueReported
    /\ Len(current_data.rows) = 2
    /\ DistinctOrders(current_data) = 1
    /\ metrics[periods.current_period \o "_total_revenue"] = Num(25)
    /\ metrics[periods.current_period \o "_total_orders"] = PyInt(1)

\* C5: avg_order_value is the mean over distinct orders of the per-order summed
\* price: avg_order_value * total_orders = total_revenue for every non-empty
\* sales table.
C5_AovIsPerOrderMean ==
    (RevenueReported /\ current_data.rows # <<>>) =>
        LET aov == metrics[periods.current_period \o "_avg_order_value"]
        IN  /\ aov.kind = "num"
            /\ aov.n * DistinctOrders(current_data) = TotalPrice(current_data) * aov.d

\* two line items of one order, 5 and 20: the order is worth 25, the mean line
\* item 12.5
C5_Witness ==
    /\ RevenueReported
    /\ Len(current_data.rows) = 2
    /\ DistinctOrders(current_data) = 1
    /\ TotalPrice(current_data) = 25
    /\ metrics[periods.current_period \o "_avg_order_value"] = Num(25)

GrowthKeys == {"revenue_growth_rate", "aov_growth_rate", "order_growth_rate"}

\* C6: with a previous-period table whose revenue, AOV or order count is 0, the
\* zero denominator is handled: the call signals the division by zero or the
\* growth rate is a defined value, never infinity or NaN.
C6_ZeroDenominatorHandled ==
    (/\ pc = "calculate_revenue_metrics"
     /\ comparison_data # None
     /\ (TotalPrice(comparison_data) = 0 \/ DistinctOrders(comparison_data) = 0)) =>
        \/ raised = "ZeroDivisionError"
        \/ \A k \in GrowthKeys : metrics[k].kind \notin {"inf", "-inf", "nan"}

\* g = (cn/cd - pn/pd) / (pn/pd) * 100, for pn # 0; undefined current (cd = 0)
\* gives an undefined rate
GrowthIs(g, cn, cd, pn, pd) ==
    IF cd = 0 THEN g.kind = "nan"
    ELSE /\ g.kind = "num"
         /\ g.n * cd * pn = 100 * (cn * pd - pn * cd) * g.d

\* C7: with a previous-period table of non-zero revenue, AOV and order count the
\* three growth rates are (current - previous) / previous * 100 of the
\* corresponding metrics; without a previous table the dict holds the current
\* period's four keys and nothing else.
C7_GrowthRates ==
    (pc = "calculate_revenue_metrics") =>
        /\ (comparison_data # None /\ TotalPrice(comparison_data) # 0
              /\ DistinctOrders(comparison_data) # 0) =>
              /\ raised = ""
              /\ GrowthKeys \subseteq DOMAIN metrics
              /\ GrowthIs(metrics["revenue_growth_rate"],
                          TotalPrice(current_data), 1, TotalPrice(comparison_data), 1)
              /\ GrowthIs(metrics["aov_growth_rate"],
                          TotalPrice(current_data), DistinctOrders(current_data),
                          TotalPrice(comparison_data), DistinctOrders(comparison_data))
              /\ GrowthIs(metrics["order_growth_rate"],
                          DistinctOrders(current_data), 1,
                          DistinctOrders(comparison_data), 1)
        /\ (comparison_data = None) =>
              /\ raised = ""
              /\ DOMAIN metrics =
                    {periods.current_period \o "_total_revenue",
                     periods.current_period \o "_avg_order_value",
                     periods.current_period \o "_total_orders",
                     periods.current_period \o "_total_items"}

\* revenue 25 in two orders after revenue 20 in one order: revenue +25 %,
\* AOV -37.5 %, orders +100 %
C7_Witness ==
    /\ pc = "calculate_revenue_metrics"
    /\ raised = ""
    /\ comparison_data # None
    /\ TotalPrice(comparison_data) = 20
    /\ TotalPrice(current_data) = 25
    /\ DistinctOrders(current_data) = 2
    /\ metrics["revenue_growth_rate"] = Num(25)
    /\ metrics["aov_growth_rate"] = Frac(-75, 2)
    /\ metrics["order_growth_rate"] = Num(100)

----------------------------------------------------------------------------
(* C8 *)

\* the positions of the rows of data in the year asked for (all rows when no
\* year is given)
InYear ==
    {i \in 1..Len(data.rows) :
        year = None \/ (/\ data.rows[i].order_purchase_timestamp_year.kind = "num"
                        /\ data.rows[i].order_purchase_timestamp_year.n = year.v)}

\* the positions of the rows of month m among them
InMonth(m) ==
    {i \in InYear : /\ data.rows[i].order_purchase_timestamp_month.kind = "num"
                    /\ data.rows[i].order_purchase_timestamp_month.n = m}

MonthsPresent == {m \in 1..12 : InMonth(m) # {}}

\* C8: calculate_monthly_trends returns one row per distinct month present in
\* the (optionally year-filtered) input, in ascending month order and without
\* rows for absent months; a row's revenue is the month's sum of price, its
\* orders the month's distinct order count; the growth columns of the first row
\* are undefined, not zero.
C8_OneRowPerMonth ==
    (pc = "calculate_monthly_trends") =>
        /\ Len(trends.rows) = Cardinality(MonthsPresent)
        /\ \A i \in 1..Len(trends.rows) :
            LET row == trends.rows[i]
            IN  /\ row.month.kind = "num" /\ row.month.d = 1
                /\ row.month.n \in MonthsPresent
                /\ row.revenue = Num(PriceOver(data, InMonth(row.month.n)))
                /\ row.orders =
                      PyInt(Cardinality({data.rows[k].order_id : k \in InMonth(row.month.n)}))
        /\ \A i, j \in 1..Len(trends.rows) :
              i < j => trends.rows[i].month.n < trends.rows[j].month.n
        /\ (trends.rows # <<>>) =>
              /\ trends.rows[1].revenue_growth.kind = "nan"
              /\ trends.rows[1].order_growth.kind = "nan"
              /\ trends.rows[1].aov_growth.kind = "nan"

\* June and then January 2023 in the input, filtered to 2023: the rows January
\* and June, nothing for February to May
C8_Witness ==
    /\ pc = "calculate_monthly_trends"
    /\ year = Some(2023)
    /\ Len(data.rows) = 2
    /\ data.rows[1].order_purchase_timestamp_month = Num(6)
    /\ data.rows[2].order_purchase_timestamp_month = Num(1)
    /\ Len(trends.rows) = 2
    /\ trends.rows[1].month = Num(1)
    /\ trends.rows[2].month = Num(6)
    /\ trends.rows[1].revenue_growth = NaN

----------------------------------------------------------------------------
(* C11 *)

\* the rows of a table as a set (a row carries its index label)
RowSet(t) == {t.rows[i] : i \in 1..Len(t.rows)}

\* C11: filter_by_date_range never mutates its input table: across the call
\* the input df keeps its rows and columns, and the result has exactly the
\* columns of the input and only rows of the input.
C11_InputUntouched ==
    [][pc' = "filter_by_date_range" =>
         /\ df' = df
         /\ df_filtered'.columns = df.columns
         /\ RowSet(df_filtered') \subseteq RowSet(df)
         /\ Len(df_filtered'.rows) <= Len(df.rows)]_vars

\* a call that kept one row of a table of two
C11_Witness ==
    /\ pc = "filter_by_date_range"
    /\ Len(df.rows) = 2
    /\ Len(df_filtered.rows) = 1
    /\ \E b \in {"start_year", "end_year", "start_month", "end_month"} :
            Truthy(bounds[b])

----------------------------------------------------------------------------
(* C12, C13 *)

Analysed == pc = "analyze_product_performance"

\* the category the products table gives the sales row at position i: null
\* when no products row has its product_id
SalesCategory(i) ==
    LET m == {j \in 1..Len(products_data.rows) :
                products_data.rows[j].product_id = sales_data.rows[i].product_id}
    IN  IF m = {} THEN NaN
        ELSE products_data.rows[CHOOSE j \in m : \A h \in m : j <= h].product_category_name

\* the categories (null apart) and the products of the sales rows
CategoriesSold == {SalesCategory(i) : i \in 1..Len(sales_data.rows)} \ {NaN}

ProductsSold == {sales_data.rows[i].product_id : i \in 1..Len(sales_data.rows)}

RowsOfCategory(c) == {i \in 1..Len(sales_data.rows) : SalesCategory(i) = c}

RowsOfProduct(p) == {i \in 1..Len(sales_data.rows) : sales_data.rows[i].product_id = p}

\* C12: with top_n = N >= 0 the category table has exactly min(N, number of
\* categories sold) rows, one per category, each with the category's total
\* price as total_revenue, in non-increasing total_revenue order, and no
\* category left out has a larger total_revenue than a category kept; the
\* same holds for the product table and the products sold.
C12_TopNByRevenue ==
    Analysed =>
        LET c == product_analysis.category_performance.rows
            p == product_analysis.product_performance.rows
            ckept == {c[i].product_category_name : i \in 1..Len(c)}
            pkept == {p[i].product_id : i \in 1..Len(p)}
        IN  /\ Len(c) = Min(top_n, Cardinality(CategoriesSold))
            /\ ckept \subseteq CategoriesSold /\ Cardinality(ckept) = Len(c)
            /\ \A i \in 1..Len(c) :
                    c[i].total_revenue =
                        Num(PriceOver(sales_data, RowsOfCategory(c[i].product_category_name)))
            /\ \A i, j \in 1..Len(c) :
                    i < j => FLe(c[j].total_revenue, c[i].total_revenue)
            /\ \A out \in CategoriesSold \ ckept : \A i \in 1..Len(c) :
                    PriceOver(sales_data, RowsOfCategory(out)) * c[i].total_revenue.d
                        <= c[i].total_revenue.n
            /\ Len(p) = Min(top_n, Cardinality(ProductsSold))
            /\ pkept \subseteq ProductsSold /\ Cardinality(pkept) = Len(p)
            /\ \A i \in 1..Len(p) :
                    p[i].total_revenue =
                        Num(PriceOver(sales_data, RowsOfProduct(p[i].product_id)))
            /\ \A i, j \in 1..Len(p) :
                    i < j => FLe(p[j].total_revenue, p[i].total_revenue)
            /\ \A out \in ProductsSold \ pkept : \A i \in 1..Len(p) :
                    PriceOver(sales_data, RowsOfProduct(out)) * p[i].total_revenue.d
                        <= p[i].total_revenue.n

\* top_n = 1 cut both tables down to the one group with the larger revenue
C12_Witness ==
    /\ Analysed
    /\ top_n = 1
    /\ Cardinality(CategoriesSold) = 2
    /\ Cardinality(ProductsSold) = 2
    /\ Len(product_analysis.category_performance.rows) = 1
    /\ Len(product_analysis.product_performance.rows) = 1
    /\ product_analysis.category_performance.rows[1].total_revenue = Num(20)
    /\ \E i \in 1..Len(sales_data.rows) : sales_data.rows[i].price = 5

\* the sum of a numeric column over rows
RECURSIVE CellSum(_, _)
CellSum(rows, col) ==
    IF rows = <<>> THEN Num(0) ELSE FAdd(Head(rows)[col], CellSum(Tail(rows), col))

\* top_n is large enough to keep every group
NotTruncated == Analysed /\ top_n >= Cardinality(ProductsSold)

\* C13 as stated: every sales row is counted in exactly one group of the
\* product table and in exactly one group of the category table, so without
\* truncation the items_sold of either table add up to the number of sales
\* rows and the total_revenue of the category table to their total price.
C13_EveryRowInACategory ==
    NotTruncated =>
        /\ CellSum(product_analysis.product_performance.rows, "items_sold")
                = Num(Len(sales_data.rows))
        /\ CellSum(product_analysis.category_performance.rows, "items_sold")
                = Num(Len(sales_data.rows))
        /\ CellSum(product_analysis.category_performance.rows, "total_revenue")
                = Num(TotalPrice(sales_data))

\* C13 amended: every sales row is counted in exactly one group of the
\* product table, whatever its category; it is counted in exactly one group
\* of the category table if its category is not null and in none if it is
\* (no product match, or a product with a null category), so without
\* truncation the total_revenue of the category table adds up to the total
\* price of the sales rows with a category.
C13_NullCategoryInNoGroup ==
    NotTruncated =>
        LET c == product_analysis.category_performance.rows
            p == product_analysis.product_performance.rows
            named == {i \in 1..Len(sales_data.rows) : ~IsNaN(SalesCategory(i))}
        IN  /\ \A q \in ProductsSold :
                    \E i \in 1..Len(p) :
                        /\ p[i].product_id = q
                        /\ p[i].items_sold = PyInt(Cardinality(RowsOfProduct(q)))
                        /\ \A j \in 1..Len(p) : p[j].product_id = q => j = i
            /\ CellSum(p, "items_sold") = Num(Len(sales_data.rows))
            /\ CellSum(p, "total_revenue") = Num(TotalPrice(sales_data))
            /\ \A k \in CategoriesSold :
                    \E i \in 1..Len(c) :
                        /\ c[i].product_category_name = k
                        /\ c[i].items_sold = PyInt(Cardinality(RowsOfCategory(k)))
                        /\ \A j \in 1..Len(c) : c[j].product_category_name = k => j = i
            /\ \A i \in 1..Len(c) : ~IsNaN(c[i].product_category_name)
            /\ CellSum(c, "items_sold") = Num(Cardinality(named))
            /\ CellSum(c, "total_revenue") = Num(PriceOver(sales_data, named))

\* a row of the unknown product P3 and a row of a product with a category:
\* two product groups, one category group
C13_Witness ==
    /\ NotTruncated
    /\ Len(sales_data.rows) = 2
    /\ sales_data.rows[1].product_id = "P3"
    /\ ~IsNaN(SalesCategory(2))
    /\ Len(product_analysis.product_performance.rows) = 2
    /\ Len(product_analysis.category_performance.rows) = 1

----------------------------------------------------------------------------
(* C14, C15 *)

\* C14: whatever calls came before on the same loader, the mapping a call of
\* load_all_datasets returns contains a dataset name if and only if the file
\* of that dataset was found during that call.
C14_MappingIffFound ==
    [][LoadAllDatasets => DOMAIN datasets' = DOMAIN files]_vars

\* both tables are loaded and have the join column and the date columns
InputsComplete ==
    IF {"order_items", "orders"} \subseteq DOMAIN datasets
    THEN /\ "order_id" \in datasets["order_items"].columns
         /\ {"order_id"} \cup DateColumns \subseteq datasets["orders"].columns
    ELSE FALSE

\* C15: a call of create_sales_dataset leaves the loader's datasets as they
\* were; when order_items or orders is not loaded, or the join column or a
\* date column is absent, it raises an error and returns no table; it
\* returns a table only when both tables are loaded.
C15_CreateFailsWithoutInputs ==
    [][CreateSalesDataset =>
         /\ datasets' = datasets
         /\ ~InputsComplete =>
                raised' \in {"ValueError", "KeyError"} /\ sales_data' = sales_data
         /\ raised' = "" => {"order_items", "orders"} \subseteq DOMAIN datasets]_vars

\* both tables were loaded, orders without a date column, and the call raised
C15_Witness ==
    /\ pc = "create_sales_dataset"
    /\ raised = "KeyError"
    /\ {"order_items", "orders"} \subseteq DOMAIN datasets
    /\ "order_id" \in datasets["order_items"].columns
    /\ "order_id" \in datasets["orders"].columns
    /\ ~(DateColumns \subseteq datasets["orders"].columns)
    /\ sales_data = NoTable

----------------------------------------------------------------------------
(* C16 *)

\* the positions of the orders the metrics are about: all of them, or those
\* purchased in target_year
OrdersCounted ==
    {i \in 1..Len(orders_data.rows) :
        LET ts == ToTimestamp(orders_data.rows[i].order_purchase_timestamp)
        IN  target_year.none \/ (~ts.isna /\ DtYear(ts) = target_year.v)}

OrdersWithStatus(s) == {i \in OrdersCounted : orders_data.rows[i].order_status = s}

\* whole days from purchase to delivery of the order at position i
DaysOf(i) ==
    TimedeltaDays(ToTimestamp(orders_data.rows[i].order_delivered_customer_date),
                  ToTimestamp(orders_data.rows[i].order_purchase_timestamp))

RECURSIVE DaysOver(_)
DaysOver(I) ==
    IF I = {} THEN 0
    ELSE LET i == CHOOSE x \in I : TRUE IN DaysOf(i).n + DaysOver(I \ {i})

IsZero(v) == v.kind \in {"int", "num"} /\ v.n = 0

\* C16: avg_delivery_days is 0 when the orders counted (all, or those of
\* target_year) hold no delivered order, and otherwise the mean of the
\* delivery days over the delivered orders only (over those that have a
\* delivery date; undefined when none has); delivery_rate_pct,
\* cancellation_rate_pct and return_rate_pct are 0 when their status does not
\* occur; and every status s that occurs has an entry s_pct equal to
\* 100 * count(s) / total_orders.
C16_OperationalMetrics ==
    pc = "calculate_operational_metrics" =>
        LET m == operational_metrics
            delivered == OrdersWithStatus("delivered")
            dated == {i \in delivered : ~IsNaN(DaysOf(i))}
            total == Cardinality(OrdersCounted)
        IN  /\ m.total_orders = PyInt(total)
            /\ delivered = {} => IsZero(m.avg_delivery_days)
            /\ delivered # {} /\ dated = {} => IsNaN(m.avg_delivery_days)
            /\ dated # {} =>
                    /\ m.avg_delivery_days.kind = "num"
                    /\ m.avg_delivery_days.n * Cardinality(dated)
                            = DaysOver(dated) * m.avg_delivery_days.d
            /\ delivered = {} => IsZero(m.delivery_rate_pct)
            /\ OrdersWithStatus("canceled") = {} => IsZero(m.cancellation_rate_pct)
            /\ OrdersWithStatus("returned") = {} => IsZero(m.return_rate_pct)
            /\ \A s \in {orders_data.rows[i].order_status : i \in OrdersCounted} :
                    /\ (s \o "_pct") \in DOMAIN m
                    /\ m[s \o "_pct"].kind = "num"
                    /\ m[s \o "_pct"].n * total
                            = 100 * Cardinality(OrdersWithStatus(s)) * m[s \o "_pct"].d

\* of the two orders of 2024 one was delivered after 3 days and one was
\* returned after 8
C16_Witness ==
    /\ pc = "calculate_operational_metrics"
    /\ target_year = Some(2024)
    /\ Cardinality(OrdersCounted) = 2
    /\ Cardinality(OrdersWithStatus("delivered")) = 1
    /\ Cardinality(OrdersWithStatus("returned")) = 1
    /\ operational_metrics.avg_delivery_days = Num(3)
    /\ operational_metrics.returned_pct = Num(50)
    /\ IsZero(operational_metrics.cancellation_rate_pct)

----------------------------------------------------------------------------
(* C17 *)

\* the orders that have a line item in sales_data and a review
ReviewedOrders ==
    {sales_data.rows[i].order_id : i \in 1..Len(sales_data.rows)}
    \cap {reviews_data.rows[j].order_id : j \in 1..Len(reviews_data.rows)}

\* the score of the first review of order o in reviews_data
FirstScore(o) ==
    LET of_o == {j \in 1..Len(reviews_data.rows) : reviews_data.rows[j].order_id = o}
    IN  reviews_data.rows[CHOOSE j \in of_o : \A h \in of_o : j <= h].review_score

RECURSIVE FirstScoreOver(_)
FirstScoreOver(O) ==
    IF O = {} THEN 0
    ELSE LET o == CHOOSE x \in O : TRUE IN FirstScore(o).n + FirstScoreOver(O \ {o})

\* C17: analyze_customer_satisfaction works on one row per order_id that
\* occurs in both sales and reviews: 'Total Reviews' is the number of such
\* orders, however many line items or reviews they have; the score used for
\* an order is that of its first joined occurrence (its first review), in
\* the mean and in the distribution; orders without a review and reviews
\* without a sales row do not count.
C17_OneRowPerReviewedOrder ==
    pc = "analyze_customer_satisfaction" =>
        LET overall == satisfaction_analysis.overall_metrics.rows
            dist == satisfaction_analysis.score_distribution.rows
            n == Cardinality(ReviewedOrders)
        IN  /\ overall[2].metric = "Total Reviews"
            /\ overall[2].value = Num(n)
            /\ overall[1].metric = "Average Review Score"
            /\ IF n = 0 THEN IsNaN(overall[1].value)
               ELSE /\ overall[1].value.kind = "num"
                    /\ overall[1].value.n * n
                            = FirstScoreOver(ReviewedOrders) * overall[1].value.d
            /\ {dist[i].review_score : i \in 1..Len(dist)}
                    = {FirstScore(o) : o \in ReviewedOrders}
            /\ \A i \in 1..Len(dist) :
                    dist[i].percentage =
                        Round1(Frac(100 * Cardinality({o \in ReviewedOrders :
                                        FirstScore(o) = dist[i].review_score}), n))

\* order 1 has two line items and two reviews, a bad one first: it counts
\* once, with the bad score
C17_Witness ==
    /\ pc = "analyze_customer_satisfaction"
    /\ Len(sales_data.rows) = 2
    /\ \A i \in 1..2 : sales_data.rows[i].order_id = 1
    /\ Len(reviews_data.rows) = 2
    /\ reviews_data.rows[1] = [order_id |-> 1, review_score |-> Num(1), index |-> 0]
    /\ reviews_data.rows[2] = [order_id |-> 1, review_score |-> Num(5), index |-> 1]
    /\ satisfaction_analysis.overall_metrics.rows[2].value = Num(1)
    /\ satisfaction_analysis.overall_metrics.rows[1].value = Num(1)

----------------------------------------------------------------------------
(* C18 *)

\* the order_ids of the delivered orders of orders_dataset.csv
DeliveredOrderIds ==
    {files["orders"].rows[i].order_id :
        i \in {h \in 1..Len(files["orders"].rows) :
                files["orders"].rows[h].order_status = "delivered"}}

\* the positions of the line items of a delivered order
DeliveredItems ==
    {i \in 1..Len(files["order_items"].rows) :
        files["order_items"].rows[i].order_id \in DeliveredOrderIds}

\* C18: after create_sales_dataset, filter_delivered_orders,
\* add_delivery_metrics and calculate_revenue_metrics, total_revenue is the
\* sum of price over the order_items whose order exists and is delivered, and
\* total_orders is the number of distinct orders of those items; with a
\* single such item of price p, total_revenue = avg_order_value = p and
\* total_orders = 1.
C18_EndToEndRevenue ==
    pc = "calculate_revenue_metrics" =>
        /\ raised = ""
        /\ metrics["Current Period_total_revenue"]
                = Num(PriceOver(files["order_items"], DeliveredItems))
        /\ metrics["Current Period_total_orders"]
                = PyInt(Cardinality({files["order_items"].rows[i].order_id :
                                        i \in DeliveredItems}))
        /\ \A i \in DeliveredItems :
                DeliveredItems = {i} =>
                    /\ metrics["Current Period_avg_order_value"]
                            = Num(files["order_items"].rows[i].price)
                    /\ metrics["Current Period_total_revenue"]
                            = Num(files["order_items"].rows[i].price)
                    /\ metrics["Current Period_total_orders"] = PyInt(1)

\* one item of a delivered order and one of an order that is not delivered
C18_Witness ==
    /\ pc = "calculate_revenue_metrics"
    /\ Len(files["order_items"].rows) = 2
    /\ Len(files["orders"].rows) = 2
    /\ Cardinality(DeliveredItems) = 1
    /\ \A i \in 1..2 : \E j \in 1..2 :
            files["orders"].rows[j].order_id = files["order_items"].rows[i].order_id
    /\ metrics["Current Period_total_revenue"] = Num(100)
    /\ metrics["Current Period_avg_order_value"] = Num(100)
    /\ metrics["Current Period_total_orders"] = PyInt(1)

----------------------------------------------------------------------------
(* C19 *)

\* C19: aggregating empty input never raises: calculate_revenue_metrics on an
\* empty current table and no comparison table returns total_revenue 0,
\* total_orders 0, total_items 0 and an undefined avg_order_value;
\* analyze_customer_satisfaction, when no sales row matches a review, returns
\* an undefined mean review score and 'Total Reviews' 0;
\* calculate_monthly_trends on an empty table returns a table without rows.
C19_EmptyInputs ==
    /\ (pc = "calculate_revenue_metrics" /\ current_data.rows = <<>>
            /\ comparison_data = None) =>
            /\ raised = ""
            /\ metrics["Current Period_total_revenue"] = Num(0)
            /\ metrics["Current Period_total_orders"] = PyInt(0)
            /\ metrics["Current Period_total_items"] = PyInt(0)
            /\ IsNaN(metrics["Current Period_avg_order_value"])
    /\ (pc = "analyze_customer_satisfaction" /\ ReviewedOrders = {}) =>
            /\ raised = ""
            /\ IsNaN(satisfaction_analysis.overall_metrics.rows[1].value)
            /\ satisfaction_analysis.overall_metrics.rows[2].metric = "Total Reviews"
            /\ satisfaction_analysis.overall_metrics.rows[2].value = Num(0)
    /\ (pc = "calculate_monthly_trends" /\ data.rows = <<>>) =>
            /\ raised = ""
            /\ trends.rows = <<>>

\* the revenue metrics of a table without rows
C19_Witness ==
    /\ pc = "calculate_revenue_metrics"
    /\ current_data.columns = {"order_id", "price"}
    /\ current_data.rows = <<>>
    /\ comparison_data = None
    /\ raised = ""
    /\ DOMAIN metrics = {"Current Period_total_revenue", "Current Period_avg_order_value",
                         "Current Period_total_orders", "Current Period_total_items"}

----------------------------------------------------------------------------
(* C20 *)

\* C20: no operation changes a table passed to it: however the statements of
\* two callers on the same table interleave, the table stays as it was, and
\* a caller that is done holds the result the operation gives on that table
\* alone.
C20_InputsUntouched ==
    [][/\ heap'[0] = heap[0]
       /\ \A c \in Callers :
            callers'[c].at = "done" =>
                callers'[c].result = Run(callers'[c].op, heap[0])]_vars

\* both callers are done: one added the delivery columns to its own copy of a
\* table with a row, the other filtered the same table
C20_Witness ==
    /\ DOMAIN callers = Callers
    /\ \A c \in Callers : callers[c].at = "done"
    /\ callers[1].op = "add_delivery_metrics"
    /\ callers[2].op = "filter_delivered_orders"
    /\ Len(heap[0].rows) = 1
    /\ "delivery_category" \in heap[1].columns
    /\ "delivery_category" \notin heap[0].columns
    /\ "delivery_category" \notin callers[2].result.columns

----------------------------------------------------------------------------
(* C21 *)

\* the dict holds the four metrics of table t under the keys of label
PeriodReadBack(label, t) ==
    /\ {label \o "_total_revenue", label \o "_avg_order_value",
        label \o "_total_orders", label \o "_total_items"} \subseteq DOMAIN metrics
    /\ metrics[label \o "_total_revenue"] = Num(TotalPrice(t))
    /\ metrics[label \o "_total_items"] = PyInt(Len(t.rows))
    /\ metrics[label \o "_total_orders"] = PyInt(DistinctOrders(t))
    /\ LET aov == metrics[label \o "_avg_order_value"]
       IN  IF t.rows = <<>> THEN aov.kind = "nan"
           ELSE /\ aov.kind = "num"
                /\ aov.n * DistinctOrders(t) = TotalPrice(t) * aov.d

\* calculate_revenue_metrics returned a dict for two periods
ComparedPeriods ==
    /\ pc = "calculate_revenue_metrics"
    /\ raised = ""
    /\ comparison_data # None

\* C21 as stated: for every pair of period labels the dict holds the current
\* period's four metrics under "{current_period}_{metric}" and the previous
\* period's under "{comparison_period}_{metric}".
C21_EveryLabelPair ==
    ComparedPeriods =>
        /\ PeriodReadBack(periods.current_period, current_data)
        /\ PeriodReadBack(periods.comparison_period, comparison_data)

\* C21: the previous period's four metrics are under
\* "{comparison_period}_{metric}" for every pair of labels, the current
\* period's under "{current_period}_{metric}" when the two labels differ; with
\* equal labels the dict has the four keys once, with the previous period's
\* values.
C21_DistinctLabelsReadBack ==
    ComparedPeriods =>
        /\ PeriodReadBack(periods.comparison_period, comparison_data)
        /\ periods.current_period # periods.comparison_period =>
              PeriodReadBack(periods.current_period, current_data)
        /\ Cardinality(DOMAIN metrics) =
              IF periods.current_period = periods.comparison_period THEN 7 ELSE 11

\* 2023 with revenue 25 in two items against 2022 with revenue 20 in one
C21_Witness ==
    /\ ComparedPeriods
    /\ periods.current_period = "2023"
    /\ periods.comparison_period = "2022"
    /\ metrics["2023_total_revenue"] = Num(25)
    /\ metrics["2023_total_items"] = PyInt(2)
    /\ metrics["2022_total_revenue"] = Num(20)
    /\ metrics["2022_total_items"] = PyInt(1)

----------------------------------------------------------------------------
(* C22 *)

\* the place of a group key in the order groupby leaves the groups in
KeyRank(s) == CHOOSE i \in 1..Len(StrOrder) : StrOrder[i] = s

\* rows of equal total_revenue are in the order of their keys, and a group
\* left out has no key before that of a kept row of the same total_revenue
TiesInKeyOrder(rows, key(_), left_out, revenue(_)) ==
    /\ \A i, j \in 1..Len(rows) :
            (i < j /\ rows[i].total_revenue = rows[j].total_revenue) =>
                KeyRank(key(rows[i])) < KeyRank(key(rows[j]))
    /\ \A out \in left_out : \A i \in 1..Len(rows) :
            rows[i].total_revenue = Num(revenue(out)) =>
                KeyRank(key(rows[i])) < KeyRank(key(out))

----------------------------------------------------------------------------
(* C23 *)

\* the cell of column col in the row of table t whose column key is k: null
\* when no row has the key
Lookup(t, key, k, col) ==
    LET m == {j \in 1..Len(t.rows) : t.rows[j][key] = k}
    IN  IF m = {} THEN NaN ELSE t.rows[CHOOSE j \in m : TRUE][col]

\* the customer and the state of the sales row at position i, over the two hops
CustomerOf(i) == Lookup(orders_data, "order_id", sales_data.rows[i].order_id, "customer_id")

StateOf(i) == Lookup(customers_data, "customer_id", CustomerOf(i), "customer_state")

StatesReached == {StateOf(i) : i \in 1..Len(sales_data.rows)} \ {NaN}

RowsOfState(s) == {i \in 1..Len(sales_data.rows) : StateOf(i) = s}

\* C23: analyze_geographic_performance returns one row per customer state
\* reached over sales -> orders -> customers, with the state's sum of price
\* as total_revenue, its number of sales rows as total_orders and its number
\* of distinct customers as unique_customers; the rows are in non-increasing
\* total_revenue order and their total_revenue adds up to no more than the
\* total price of the sales table.
C23_OneRowPerState ==
    (pc = "analyze_geographic_performance") =>
        LET g == geo_performance.rows
        IN  /\ {g[i].customer_state : i \in 1..Len(g)} = StatesReached
            /\ Len(g) = Cardinality(StatesReached)
            /\ \A i \in 1..Len(g) :
                    LET rs == RowsOfState(g[i].customer_state)
                    IN  /\ g[i].total_revenue = Num(PriceOver(sales_data, rs))
                        /\ g[i].total_orders = PyInt(Cardinality(rs))
                        /\ g[i].unique_customers =
                                PyInt(Cardinality({CustomerOf(r) : r \in rs}))
            /\ \A i, j \in 1..Len(g) :
                    i < j => FLe(g[j].total_revenue, g[i].total_revenue)
            /\ FLe(CellSum(g, "total_revenue"), Num(TotalPrice(sales_data)))

\* two line items of one customer in one state, 25 together
C23_Witness ==
    /\ pc = "analyze_geographic_performance"
    /\ Len(sales_data.rows) = 2
    /\ StateOf(1) = StateOf(2)
    /\ CustomerOf(1) = CustomerOf(2)
    /\ StatesReached # {}
    /\ Len(geo_performance.rows) = 1
    /\ geo_performance.rows[1].total_revenue = Num(25)
    /\ geo_performance.rows[1].total_orders = PyInt(2)
    /\ geo_performance.rows[1].unique_customers = PyInt(1)

----------------------------------------------------------------------------
(* C24 *)

\* C24: load_and_prepare_data returns the same prepared table and datasets
\* for every target_year and comparison_year as without them: all delivered
\* rows of all years, each with order_status 'delivered' and a
\* delivery_category; and it raises for the same files.
C24_YearsLeaveResult ==
    (pc = "load_and_prepare_data") =>
        LET no_years == load_and_prepare_data(files, None, None)
        IN  /\ raised = no_years.raised
            /\ datasets = no_years.datasets
            /\ sales_delivered = no_years.sales_delivered
            /\ raised = "" =>
                  /\ Len(sales_delivered.rows) = Cardinality(DeliveredItems)
                  /\ \A i \in 1..Len(sales_delivered.rows) :
                        /\ sales_delivered.rows[i].order_status = "delivered"
                        /\ "delivery_category" \in DOMAIN sales_delivered.rows[i]

\* called for 2024 with delivered items of 2023 and 2024: one record printed
\* for 2024, one for 2023, both rows returned
C24_Witness ==
    /\ pc = "load_and_prepare_data"
    /\ raised = ""
    /\ years = [target_year |-> Some(2024), comparison_year |-> Some(2023)]
    /\ printed = <<2, 2, 1, 1>>
    /\ Len(sales_delivered.rows) = 2
    /\ sales_delivered.rows[1].order_purchase_timestamp_year
            # sales_delivered.rows[2].order_purchase_timestamp_year

----------------------------------------------------------------------------
(* C25 *)

\* the month of the row before row i of trends is the last month before row
\* i's that is present in the data
FollowsPreviousPresentMonth(i) ==
    LET m == trends.rows[i].month.n
        p == trends.rows[i - 1].month.n
    IN  /\ p \in MonthsPresent /\ p < m
        /\ \A q \in MonthsPresent : q < m => q <= p

\* g is (value - previous) / previous * 100 for the values cn/cd and pn/pd;
\* a previous value of 0 leaves no percentage
ChangeIs(g, cn, cd, pn, pd) ==
    IF pn = 0 THEN g.kind \in {"nan", "inf", "-inf"}
    ELSE /\ g.kind = "num"
         /\ g.n * cd * pn = 100 * (cn * pd - pn * cd) * g.d

OrdersIn(m) == Cardinality({data.rows[k].order_id : k \in InMonth(m)})

\* C25: in every row of calculate_monthly_trends after the first,
\* revenue_growth, order_growth and aov_growth are (value - value of the row
\* before) / value of the row before * 100, and the row before is that of
\* the previous month present in the data, also when calendar months in
\* between are absent.
C25_GrowthOverPresentMonths ==
    (pc = "calculate_monthly_trends") =>
        \A i \in 2..Len(trends.rows) :
            LET m == trends.rows[i].month.n
                p == trends.rows[i - 1].month.n
            IN  /\ FollowsPreviousPresentMonth(i)
                /\ ChangeIs(trends.rows[i].revenue_growth,
                            PriceOver(data, InMonth(m)), 1,
                            PriceOver(data, InMonth(p)), 1)
                /\ ChangeIs(trends.rows[i].order_growth, OrdersIn(m), 1, OrdersIn(p), 1)
                /\ ChangeIs(trends.rows[i].aov_growth,
                            PriceOver(data, InMonth(m)), OrdersIn(m),
                            PriceOver(data, InMonth(p)), OrdersIn(p))

\* January with 5 and June with 20, nothing from February to May: June's
\* revenue grew by 300 % over January's
C25_Witness ==
    /\ pc = "calculate_monthly_trends"
    /\ Len(trends.rows) = 2
    /\ trends.rows[1].month = Num(1)
    /\ trends.rows[2].month = Num(6)
    /\ trends.rows[1].revenue = Num(5)
    /\ trends.rows[2].revenue = Num(20)
    /\ trends.rows[2].revenue_growth = Num(300)
    /\ trends.rows[2].order_growth = Num(0)
====
